---- MODULE Spec2Model ----
(***************************************************************************)
(* A model of twitter_articlenator's concurrency core:                     *)
(*   - BrowserPool (sources/browser_pool.py): acquire / release /          *)
(*     get_context, run by coroutines of one asyncio event loop;           *)
(*   - AsyncRunner (app.py): the background event loop that request        *)
(*     threads submit coroutines to;                                       *)
(*   - the batch conversion handlers (routes/api.py).                      *)
(* Each subsystem has its own specification; the variables of the other    *)
(* subsystems stay at their initial values.                                *)
(***************************************************************************)
EXTENDS Integers, Sequences, FiniteSets, TLC

\* ------------------------------------------------------------------ bounds
\* Coroutines that use the pool, and get_context calls they make in all.
NumTasks == 2
MaxCalls == 3

\* BrowserPool(max_browsers=1), as the pool's unit tests build it.
max_browsers == 1

Tasks == 1..NumTasks
\* Every get_context call launches at most one browser.
BrowserIds == 1..MaxCalls
\* `browser`/`context` not bound yet; asyncio.Lock not held.
NoBrowser == 0
NoTask == 0

VARIABLES
    \* ---- BrowserPool fields
    initialized,    \* self._initialized
    playwright,     \* self._playwright is not None
    browser_count,  \* self._browser_count
    browsers,       \* self._browsers: the idle queue (asyncio.Queue, maxsize=max_browsers)
    lock,           \* self._lock: the task holding it, or NoTask
    \* ---- the browsers themselves
    bstate,         \* per browser: "unlaunched" | "connected" | "disconnected" | "closed"
    \* ---- each coroutine's position in get_context / acquire / release
    pc,
    calls,          \* get_context calls started so far, by all coroutines
    cookies,        \* the call's `cookies` argument is non-empty
    held,           \* get_context's local `browser`
    ctx,            \* get_context's local `context`: "none" | "open" | "closed"
    relCalls,       \* release() calls made by the current get_context call
    ctxCloses,      \* context.close() calls made by the current get_context call
    leaked,         \* browsers whose get_context call ended without releasing them
    \* ---- cookies inside the browsers
    ctxCookies,     \* per coroutine: whose cookies its context holds
    browserCookies  \* per browser: whose cookies were added to contexts of it

poolVars == <<initialized, playwright, browser_count, browsers, lock, bstate,
              pc, calls, cookies, held, ctx, relCalls, ctxCloses, leaked,
              ctxCookies, browserCookies>>

\* Request threads that call AsyncRunner.run, and the calls they make in all.
NumThreads == 2
MaxRuns == 3

Threads == 1..NumThreads
\* A coroutine object is made by the caller for each run() call.
Coros == 1..MaxRuns
\* Event loops (and the background thread started for each) that _ensure_loop
\* could create: at most one per run() call.
LoopIds == 1..MaxRuns
\* self._loop is None; no coroutine; threading.Lock not held.
NoLoop == 0
NoCoro == 0
NoThread == 0

VARIABLES
    \* ---- AsyncRunner fields
    runner_loop,    \* self._loop: a loop id or NoLoop
    runner_thread,  \* self._thread: the background thread last started, or NoLoop
    runner_lock,    \* self._lock (threading.Lock): the request thread holding it
    \* ---- event loops and background threads
    loopState,      \* per loop: "none" | "created" | "running"
    bgState,        \* per background thread: "none" | "started" | "run_forever" | "failed"
    executing,      \* per loop: the coroutine whose step the loop's thread is running
    \* ---- coroutines submitted through run
    coState,        \* per coroutine: "new" | "scheduled" | "started" | "done"
    coLoop,         \* per coroutine: the loop it was submitted to
    coResult,       \* per coroutine: "none" | "value" | "exception"
    \* ---- request threads inside run
    tpc,            \* per thread: its position in run / _ensure_loop
    runs,           \* run() calls made so far, by all threads
    future,         \* per thread: run's local `future` (the coroutine it stands for)
    got             \* per thread: what the last run() call handed back

runnerVars == <<runner_loop, runner_thread, runner_lock, loopState, bgState, executing,
                coState, coLoop, coResult, tpc, runs, future, got>>

\* URLs of one conversion request.
MaxUrls == 2

\* A URL, as far as the sources' can_handle look at it: scheme, host, and whether
\* the path is /<user>/status/<id>.
TweetUrl == [scheme |-> "https", host |-> "x.com", status |-> TRUE]
WebUrl == [scheme |-> "https", host |-> "example.com", status |-> FALSE]
XHomeUrl == [scheme |-> "https", host |-> "x.com", status |-> FALSE]
Urls == {TweetUrl, WebUrl, XHomeUrl}
Endpoints == {"convert", "convert_stream", "bookmarks_convert"}
Positions == 1..MaxUrls

VARIABLES
    \* ---- the request
    endpoint,       \* the route handling it, or "off"
    links,          \* the submitted `links` / `urls`, in order
    reqCookies,     \* _get_cookies_from_request() is not None
    \* ---- the handler's locals
    hpc,            \* the handler's position
    sources,        \* sources_for_urls: the source class per position
    idx,            \* the loop's position, 1-based
    articles,       \* `articles`: the positions fetched, in order
    errors,         \* `errors`: [pos, url, error]
    \* ---- what the handler caused
    fetchState,     \* per position: the fetch coroutine: "none" | "running" | "ok" | "raised"
    fetchStarts,    \* per position: the fetch coroutines started for it
    pdfCalls,       \* the article counts generate_combined_pdf was called with
    events,         \* the events yielded so far (streaming routes)
    response        \* the HTTP response, once there is one

batchVars == <<endpoint, links, reqCookies, hpc, sources, idx, articles, errors,
               fetchState, fetchStarts, pdfCalls, events, response>>

\* Tweet ids the bookmarks page can expose, and tweet elements seen in one pass.
MaxIds == 2
MaxVisible == 2
\* bookmarks.py, line 21.
MAX_EMPTY_SCROLLS == 3

PageIds == 1..MaxIds
\* _extract_bookmark returned None for the element.
NoId == 0

VARIABLES
    \* ---- BookmarkScraper.scrape: the locals of the scroll loop
    spc,                \* "off" | "loop" | "returned"
    bookmarks,          \* `bookmarks`: the tweet ids collected, in order
    seen_ids,           \* `seen_ids`
    empty_scroll_count, \* `empty_scroll_count`
    passes,             \* new_count of every extraction pass made, in order
    callbacks,          \* the on_bookmark calls made: [entry, running_total]
    resighted           \* a tweet already in seen_ids was extracted again

scrapeVars == <<spc, bookmarks, seen_ids, empty_scroll_count, passes, callbacks,
                resighted>>

\* Keyword arguments a caller can give get_source_for_url.
Kwargs == {"cookies", "timeout"}
\* URLs given to get_source_for_url, as far as can_handle looks at them.
UrlShapes ==
    [scheme : {"https", "ftp"},
     host : {"x.com", "www.twitter.com", "mobile.twitter.com", "example.com", ""},
     status : BOOLEAN]

VARIABLES
    \* ---- one get_source_for_url call
    gsUrl,          \* `url`
    gsKwargs,       \* the names of the keyword arguments given
    gsK,            \* the position of the for loop in _SOURCES; 0: not called
    gsTried,        \* the instances made so far: [cls, args]
    gsResult        \* "pending" | "None" | the class of the instance returned

sourceVars == <<gsUrl, gsKwargs, gsK, gsTried, gsResult>>

\* Articles given to one generate_combined_pdf call.
MaxArticles == 2
\* pdf/generator.py, line 20.
MAX_CONTENT_SIZE == 500000000
\* An article's content: its numbers of characters that UTF-8 encodes in one
\* byte and in three bytes.
Contents ==
    {[ascii |-> 0, wide |-> 0], [ascii |-> 1, wide |-> 0], [ascii |-> 0, wide |-> 1],
     [ascii |-> 249999999, wide |-> 0], [ascii |-> 250000000, wide |-> 0],
     [ascii |-> 0, wide |-> 83333334], [ascii |-> 499999997, wide |-> 1],
     [ascii |-> 500000000, wide |-> 0], [ascii |-> 500000001, wide |-> 0]}

VARIABLES
    \* ---- one generate_combined_pdf call
    pdfArticles,    \* `articles`: the content of each
    gpc,            \* "off" | "called" | "mkdir" | "write" | "done"
    pdfOutcome,     \* "none" | "ValueError" | "ContentTooLargeError" | "WriteError" | "path"
    dirCreated,     \* output_dir.mkdir was called
    pdfWritten      \* write_pdf calls made

pdfVars == <<pdfArticles, gpc, pdfOutcome, dirCreated, pdfWritten>>

\* Characters of a requested file name before its extension.
MaxStem == 3
\* A file name is a sequence of characters; "e+acute" stands for the one
\* character U+00E9.
StemChars == {"a", ".", "_", " ", "/", "*", "e+acute"}
Extensions ==
    {<<>>, <<".", "p", "d", "f">>, <<".", "t", "x", "t">>, <<".", "P", "D", "F">>}

VARIABLES
    \* ---- one GET /download/<filename> request
    dlName,         \* the <filename> part of the request path
    dlExists,       \* a file of the sanitised name exists in the output directory
    dpc,            \* "off" | "request" | "done"
    dlResponse      \* [status, ...]

downloadVars == <<dlName, dlExists, dpc, dlResponse>>

\* Lines of one cookie input, and save_cookies calls of one run.
MaxLines == 2
MaxSaves == 2

VARIABLES
    \* ---- Config and its cookie file
    cfgpc,          \* "off" | "ready"
    cookieFile,     \* [kind |-> "absent" | "garbage" | "json", ...]
    lastInput,      \* the argument of the latest save_cookies call
    asSaved,        \* the file is as the latest save_cookies call wrote it
    loaded,         \* what load_cookies returned, if called since the file changed
    saves           \* save_cookies calls so far

configVars == <<cfgpc, cookieFile, lastInput, asSaved, loaded, saves>>

VARIABLES
    \* ---- the TwitterPlaywrightSource each coroutine holds, and its fetch call
    cookies_str,    \* per coroutine: self._cookies_str
    fetchUrl,       \* per coroutine: the url it will call fetch with
    raised          \* per coroutine: the ValueError its latest fetch raised

fetchVars == <<cookies_str, fetchUrl, raised>>

VARIABLES
    \* ---- one BrowserPool.close() call
    closing         \* "none" | "draining" | "stopping" | "returned"

closeVars == <<closing>>

VARIABLES
    \* ---- one POST /api/bookmarks/fetch request
    bfpc,           \* "off" | "received" | "streaming" | "scraping" | "done"
    bfJson,         \* request.is_json
    bfRaw,          \* the request's cookies field
    bfPreflight,    \* what the verification endpoint would answer
    bfResponse,     \* the HTTP response
    bfThread,       \* the _run_scrape thread has been started
    bfEvents,       \* the events of the stream so far
    bfScrape        \* what scraper.scrape() does when it is run

bookmarksVars == <<bfpc, bfJson, bfRaw, bfPreflight, bfResponse, bfThread, bfEvents,
                   bfScrape>>

VARIABLES
    \* ---- one POST /api/cookies/validate request
    vpc,            \* "off" | "received" | "done"
    vRaw,           \* the request's cookies field
    vLiveArg,       \* the `live` query argument
    vAnswer,        \* what the verification endpoint would answer
    vResult,        \* the JSON body returned
    vNetCalls       \* httpx.get calls made by the handler

validateVars == <<vpc, vRaw, vLiveArg, vAnswer, vResult, vNetCalls>>

VARIABLES
    \* ---- request threads waiting in AsyncRunner.run for a pool coroutine
    waiter          \* per coroutine: its caller is "none" | "waiting" | "returned" | "timeout"

waiterVars == <<waiter>>

\* The variables of the subsystems other than the pool, the runner and the
\* conversion routes.
restVars == <<scrapeVars, sourceVars, pdfVars, downloadVars, configVars, fetchVars,
              closeVars, bookmarksVars, validateVars, waiterVars>>

vars == <<poolVars, runnerVars, batchVars, restVars>>

\* The subsystems other than g leave their variables alone.
RestUnchangedExcept(g) ==
    /\ IF g = "scrape" THEN TRUE ELSE UNCHANGED scrapeVars
    /\ IF g = "source" THEN TRUE ELSE UNCHANGED sourceVars
    /\ IF g = "pdf" THEN TRUE ELSE UNCHANGED pdfVars
    /\ IF g = "download" THEN TRUE ELSE UNCHANGED downloadVars
    /\ IF g = "config" THEN TRUE ELSE UNCHANGED configVars
    /\ IF g = "fetch" THEN TRUE ELSE UNCHANGED fetchVars
    /\ IF g = "close" THEN TRUE ELSE UNCHANGED closeVars
    /\ IF g = "bookmarks" THEN TRUE ELSE UNCHANGED bookmarksVars
    /\ IF g = "validate" THEN TRUE ELSE UNCHANGED validateVars
    /\ IF g = "waiter" THEN TRUE ELSE UNCHANGED waiterVars

IsConnected(b) == bstate[b] = "connected"

\* ------------------------------------------------------------ BrowserPool

\* BrowserPool.__init__ and no coroutine started.
PoolInit ==
    /\ initialized = FALSE
    /\ playwright = FALSE
    /\ browser_count = 0
    /\ browsers = <<>>
    /\ lock = NoTask
    /\ bstate = [b \in BrowserIds |-> "unlaunched"]
    /\ pc = [t \in Tasks |-> "idle"]
    /\ calls = 0
    /\ cookies = [t \in Tasks |-> FALSE]
    /\ held = [t \in Tasks |-> NoBrowser]
    /\ ctx = [t \in Tasks |-> "none"]
    /\ relCalls = [t \in Tasks |-> 0]
    /\ ctxCloses = [t \in Tasks |-> 0]
    /\ leaked = {}
    /\ ctxCookies = [t \in Tasks |-> {}]
    /\ browserCookies = [b \in BrowserIds |-> {}]

Goto(t, where) == pc' = [pc EXCEPT ![t] = where]

\* A coroutine enters `async with pool.get_context(cookies)`: get_context calls
\* acquire, which calls _ensure_initialized (line 121: return if initialized).
\* A coroutine's code is cut into steps at its awaits and at the statements
\* between them that read or write the pool's fields; the event loop switches
\* coroutines only at an await that suspends, so the steps allow every
\* interleaving the loop can produce.
Call(t) ==
    /\ pc[t] \in {"idle", "exited"}
    /\ calls < MaxCalls
    /\ calls' = calls + 1
    /\ \E c \in BOOLEAN : cookies' = [cookies EXCEPT ![t] = c]
    /\ held' = [held EXCEPT ![t] = NoBrowser]
    /\ ctx' = [ctx EXCEPT ![t] = "none"]
    /\ relCalls' = [relCalls EXCEPT ![t] = 0]
    /\ ctxCloses' = [ctxCloses EXCEPT ![t] = 0]
    /\ Goto(t, IF initialized THEN "get_nowait" ELSE "init_lock")
    /\ UNCHANGED <<initialized, playwright, browser_count, browsers, lock, bstate>>
    /\ UNCHANGED <<leaked, runnerVars, batchVars, restVars>>
    /\ ctxCookies' = [ctxCookies EXCEPT ![t] = {}]
    /\ browserCookies' = browserCookies

\* _ensure_initialized, `async with self._lock` and the second check: either the
\* pool was initialized meanwhile, or Playwright is started under the lock.
EnsureInitLock(t) ==
    /\ pc[t] = "init_lock"
    /\ lock = NoTask
    /\ IF initialized
          THEN Goto(t, "get_nowait") /\ lock' = lock
          ELSE Goto(t, "pw_start") /\ lock' = t
    /\ UNCHANGED <<initialized, playwright, browser_count, browsers, bstate,
                   calls, cookies, held, ctx, relCalls, ctxCloses>>
    /\ UNCHANGED <<leaked, ctxCookies, browserCookies>>
    /\ UNCHANGED <<runnerVars, batchVars, restVars>>

\* `await async_playwright().start()` returns; _initialized is set; lock released.
EnsureInitStart(t) ==
    /\ pc[t] = "pw_start"
    /\ playwright' = TRUE
    /\ initialized' = TRUE
    /\ lock' = NoTask
    /\ Goto(t, "get_nowait")
    /\ UNCHANGED <<browser_count, browsers, bstate,
                   calls, cookies, held, ctx, relCalls, ctxCloses>>
    /\ UNCHANGED <<leaked, ctxCookies, browserCookies>>
    /\ UNCHANGED <<runnerVars, batchVars, restVars>>

\* get_nowait that hands out the head of the idle queue and leaves it there.
AcquireGetNowaitPeek(t) ==
    /\ pc[t] = "get_nowait"
    /\ IF browsers # <<>>
          THEN /\ browsers' = browsers
               /\ IF IsConnected(Head(browsers))
                     THEN /\ held' = [held EXCEPT ![t] = Head(browsers)]
                          /\ Goto(t, "new_context")
                          /\ browser_count' = browser_count
                     ELSE /\ browser_count' = browser_count - 1
                          /\ Goto(t, "lock173")
                          /\ held' = held
          ELSE /\ Goto(t, "lock173")
               /\ UNCHANGED <<browsers, browser_count, held>>
    /\ UNCHANGED <<initialized, playwright, lock, bstate,
                   calls, cookies, ctx, relCalls, ctxCloses>>
    /\ UNCHANGED <<leaked, ctxCookies, browserCookies>>
    /\ UNCHANGED <<runnerVars, batchVars, restVars>>

\* acquire, lines 160-170: get_nowait from the idle queue.
AcquireGetNowait(t) ==
    /\ pc[t] = "get_nowait"
    /\ IF browsers # <<>>
          THEN /\ browsers' = Tail(browsers)
               /\ IF IsConnected(Head(browsers))
                     THEN /\ held' = [held EXCEPT ![t] = Head(browsers)]
                          /\ Goto(t, "new_context")
                          /\ browser_count' = browser_count
                     ELSE /\ browser_count' = browser_count - 1
                          /\ Goto(t, "lock173")
                          /\ held' = held
          ELSE /\ Goto(t, "lock173")
               /\ UNCHANGED <<browsers, browser_count, held>>
    /\ UNCHANGED <<initialized, playwright, lock, bstate,
                   calls, cookies, ctx, relCalls, ctxCloses>>
    /\ UNCHANGED <<leaked, ctxCookies, browserCookies>>
    /\ UNCHANGED <<runnerVars, batchVars, restVars>>

\* acquire, lines 173-175: under the lock, create a browser if under the limit.
UnderLimit == browser_count < max_browsers

AcquireLock(t) ==
    /\ pc[t] = "lock173"
    /\ lock = NoTask
    /\ IF UnderLimit
          THEN Goto(t, "launch_locked") /\ lock' = t
          ELSE Goto(t, "wait_get") /\ lock' = lock
    /\ UNCHANGED <<initialized, playwright, browser_count, browsers, bstate,
                   calls, cookies, held, ctx, relCalls, ctxCloses>>
    /\ UNCHANGED <<leaked, ctxCookies, browserCookies>>
    /\ UNCHANGED <<runnerVars, batchVars, restVars>>

\* _create_browser, lines 137-147: chromium.launch returns a new browser, which is
\* counted and handed to the caller.
CreateBrowser(t, b) ==
    /\ bstate[b] = "unlaunched"
    /\ \A c \in BrowserIds : c < b => bstate[c] # "unlaunched"
    /\ bstate' = [bstate EXCEPT ![b] = "connected"]
    /\ browser_count' = browser_count + 1
    /\ held' = [held EXCEPT ![t] = b]

\* acquire, line 175: the launch made under the lock completes.
AcquireCreateLocked(t) ==
    /\ pc[t] = "launch_locked"
    /\ \E b \in BrowserIds : CreateBrowser(t, b)
    /\ lock' = NoTask
    /\ Goto(t, "new_context")
    /\ UNCHANGED <<initialized, playwright, browsers,
                   calls, cookies, ctx, relCalls, ctxCloses>>
    /\ UNCHANGED <<leaked, ctxCookies, browserCookies>>
    /\ UNCHANGED <<runnerVars, batchVars, restVars>>

\* acquire, lines 179-184: `await self._browsers.get()` returns a browser.
AcquireWaitGet(t) ==
    /\ pc[t] = "wait_get"
    /\ browsers # <<>>
    /\ browsers' = Tail(browsers)
    /\ IF IsConnected(Head(browsers))
          THEN /\ held' = [held EXCEPT ![t] = Head(browsers)]
               /\ Goto(t, "new_context")
               /\ browser_count' = browser_count
          ELSE /\ browser_count' = browser_count - 1
               /\ Goto(t, "launch_unlocked")
               /\ held' = held
    /\ UNCHANGED <<initialized, playwright, lock, bstate,
                   calls, cookies, ctx, relCalls, ctxCloses>>
    /\ UNCHANGED <<leaked, ctxCookies, browserCookies>>
    /\ UNCHANGED <<runnerVars, batchVars, restVars>>

\* acquire, line 185: the replacement launch, made without the lock, completes.
AcquireCreateUnlocked(t) ==
    /\ pc[t] = "launch_unlocked"
    /\ \E b \in BrowserIds : CreateBrowser(t, b)
    /\ Goto(t, "new_context")
    /\ UNCHANGED <<initialized, playwright, browsers, lock,
                   calls, cookies, ctx, relCalls, ctxCloses>>
    /\ UNCHANGED <<leaked, ctxCookies, browserCookies>>
    /\ UNCHANGED <<runnerVars, batchVars, restVars>>

\* release without the is_connected() check of line 193.
ReleaseUnchecked(t) ==
    /\ relCalls' = [relCalls EXCEPT ![t] = @ + 1]
    /\ IF Len(browsers) < max_browsers
          THEN /\ browsers' = Append(browsers, held[t])
               /\ browser_count' = browser_count
               /\ Goto(t, "exited")
          ELSE /\ Goto(t, "browser_close")
               /\ UNCHANGED <<browsers, browser_count>>

\* release, lines 193-205, up to its only await (browser.close()).
Release(t) ==
    /\ relCalls' = [relCalls EXCEPT ![t] = @ + 1]
    /\ IF ~IsConnected(held[t])
          THEN /\ browser_count' = browser_count - 1
               /\ browsers' = browsers
               /\ Goto(t, "exited")
          ELSE IF Len(browsers) < max_browsers
                  THEN /\ browsers' = Append(browsers, held[t])
                       /\ browser_count' = browser_count
                       /\ Goto(t, "exited")
                  ELSE /\ Goto(t, "browser_close")
                       /\ UNCHANGED <<browsers, browser_count>>

\* release, lines 203-204: `await browser.close()` returns, the count is decremented.
ReleaseClosed(t) ==
    /\ pc[t] = "browser_close"
    /\ bstate' = [bstate EXCEPT ![held[t]] = "closed"]
    /\ browser_count' = browser_count - 1
    /\ Goto(t, "exited")
    /\ UNCHANGED <<initialized, playwright, browsers, lock,
                   calls, cookies, held, ctx, relCalls, ctxCloses>>
    /\ UNCHANGED <<leaked, ctxCookies, browserCookies>>
    /\ UNCHANGED <<runnerVars, batchVars, restVars>>

\* A context that shares the cookies of the contexts made of the browser before.
NewContextCookiesShared(b) == browserCookies[b]

\* get_context, line 230: browser.new_context() gives a new context of its own,
\* with no cookies in it.
NewContextCookies(b) == {}

\* get_context, line 230: browser.new_context returns.
NewContextOk(t) ==
    /\ pc[t] = "new_context"
    /\ ctx' = [ctx EXCEPT ![t] = "open"]
    /\ Goto(t, "add_init_script")
    /\ UNCHANGED <<initialized, playwright, browser_count, browsers, lock, bstate,
                   calls, cookies, held, relCalls, ctxCloses>>
    /\ UNCHANGED <<leaked, runnerVars, batchVars, restVars>>
    /\ ctxCookies' = [ctxCookies EXCEPT ![t] = NewContextCookies(held[t])]
    /\ browserCookies' = browserCookies

\* get_context, line 230 raises: `context` is still None, so the finally block
\* goes straight to release (lines 252-254).
NewContextRaises(t) ==
    /\ pc[t] = "new_context"
    /\ Release(t)
    /\ UNCHANGED <<initialized, playwright, lock, bstate,
                   calls, cookies, held, ctx, ctxCloses>>
    /\ UNCHANGED <<leaked, ctxCookies, browserCookies>>
    /\ UNCHANGED <<runnerVars, batchVars, restVars>>

\* get_context, lines 243-249: add_init_script returns; cookies are added if given,
\* otherwise the context is yielded to the with-body.
AddInitScriptOk(t) ==
    /\ pc[t] = "add_init_script"
    /\ Goto(t, IF cookies[t] THEN "add_cookies" ELSE "body")
    /\ UNCHANGED <<initialized, playwright, browser_count, browsers, lock, bstate,
                   calls, cookies, held, ctx, relCalls, ctxCloses>>
    /\ UNCHANGED <<leaked, ctxCookies, browserCookies>>
    /\ UNCHANGED <<runnerVars, batchVars, restVars>>

\* An exception inside the try block with `context` set: the finally block awaits
\* context.close() (line 253).
RaiseInTry(t) ==
    /\ Goto(t, "ctx_close")
    /\ UNCHANGED <<initialized, playwright, browser_count, browsers, lock, bstate,
                   calls, cookies, held, ctx, relCalls, ctxCloses>>

AddInitScriptRaises(t) ==
    /\ pc[t] = "add_init_script"
    /\ RaiseInTry(t)
    /\ UNCHANGED <<leaked, ctxCookies, browserCookies>>
    /\ UNCHANGED <<runnerVars, batchVars, restVars>>

\* get_context, line 247: add_cookies returns, with the caller's `cookies` in the
\* context; the context is yielded.
AddCookiesOk(t) ==
    /\ pc[t] = "add_cookies"
    /\ Goto(t, "body")
    /\ UNCHANGED <<initialized, playwright, browser_count, browsers, lock, bstate,
                   calls, cookies, held, ctx, relCalls, ctxCloses>>
    /\ UNCHANGED <<leaked, runnerVars, batchVars, restVars>>
    /\ ctxCookies' = [ctxCookies EXCEPT ![t] = @ \cup {t}]
    /\ browserCookies' = [browserCookies EXCEPT ![held[t]] = @ \cup {t}]

AddCookiesRaises(t) ==
    /\ pc[t] = "add_cookies"
    /\ RaiseInTry(t)
    /\ UNCHANGED <<leaked, ctxCookies, browserCookies>>
    /\ UNCHANGED <<runnerVars, batchVars, restVars>>

\* The with-body ends normally: the generator resumes after the yield and enters
\* the finally block.
BodyEnds(t) ==
    /\ pc[t] = "body"
    /\ Goto(t, "ctx_close")
    /\ UNCHANGED <<initialized, playwright, browser_count, browsers, lock, bstate,
                   calls, cookies, held, ctx, relCalls, ctxCloses>>
    /\ UNCHANGED <<leaked, ctxCookies, browserCookies>>
    /\ UNCHANGED <<runnerVars, batchVars, restVars>>

\* The with-body raises: the exception is thrown into the generator at the yield.
BodyRaises(t) ==
    /\ pc[t] = "body"
    /\ RaiseInTry(t)
    /\ UNCHANGED <<leaked, ctxCookies, browserCookies>>
    /\ UNCHANGED <<runnerVars, batchVars, restVars>>

\* get_context, lines 253-254: context.close() returns, then release runs.
ContextCloseOk(t) ==
    /\ pc[t] = "ctx_close"
    /\ ctx' = [ctx EXCEPT ![t] = "closed"]
    /\ ctxCloses' = [ctxCloses EXCEPT ![t] = @ + 1]
    /\ Release(t)
    /\ UNCHANGED <<initialized, playwright, lock, bstate,
                   calls, cookies, held>>
    /\ UNCHANGED <<leaked, runnerVars, batchVars, restVars>>
    /\ ctxCookies' = [ctxCookies EXCEPT ![t] = {}]
    /\ browserCookies' = browserCookies

\* get_context, line 253 raises: the exception leaves the finally block, and
\* line 254 (release) is not reached.
ContextCloseRaises(t) ==
    /\ pc[t] = "ctx_close"
    /\ ctxCloses' = [ctxCloses EXCEPT ![t] = @ + 1]
    /\ leaked' = leaked \cup {held[t]}
    /\ Goto(t, "exited")
    /\ UNCHANGED <<initialized, playwright, browser_count, browsers, lock, bstate,
                   calls, cookies, held, ctx, relCalls>>
    /\ UNCHANGED <<ctxCookies, browserCookies, runnerVars, batchVars, restVars>>

\* A browser process dies or loses its connection: is_connected() turns false.
Disconnect(b) ==
    /\ bstate[b] = "connected"
    /\ bstate' = [bstate EXCEPT ![b] = "disconnected"]
    /\ UNCHANGED <<initialized, playwright, browser_count, browsers, lock,
                   pc, calls, cookies, held, ctx, relCalls, ctxCloses>>
    /\ UNCHANGED <<leaked, ctxCookies, browserCookies>>
    /\ UNCHANGED <<runnerVars, batchVars, restVars>>

PoolNext ==
    \/ \E t \in Tasks : Call(t)
    \/ \E t \in Tasks : EnsureInitLock(t)
    \/ \E t \in Tasks : EnsureInitStart(t)
    \/ \E t \in Tasks : AcquireGetNowait(t)
    \/ \E t \in Tasks : AcquireLock(t)
    \/ \E t \in Tasks : AcquireCreateLocked(t)
    \/ \E t \in Tasks : AcquireWaitGet(t)
    \/ \E t \in Tasks : AcquireCreateUnlocked(t)
    \/ \E t \in Tasks : NewContextOk(t)
    \/ \E t \in Tasks : NewContextRaises(t)
    \/ \E t \in Tasks : AddInitScriptOk(t)
    \/ \E t \in Tasks : AddInitScriptRaises(t)
    \/ \E t \in Tasks : AddCookiesOk(t)
    \/ \E t \in Tasks : AddCookiesRaises(t)
    \/ \E t \in Tasks : BodyEnds(t)
    \/ \E t \in Tasks : BodyRaises(t)
    \/ \E t \in Tasks : ContextCloseOk(t)
    \/ \E t \in Tasks : ContextCloseRaises(t)
    \/ \E t \in Tasks : ReleaseClosed(t)
    \/ \E b \in BrowserIds : Disconnect(b)

\* ------------------------------------------------------------ AsyncRunner

\* AsyncRunner.__init__ (lines 26-29) and no request thread inside run.
RunnerInit ==
    /\ runner_loop = NoLoop
    /\ runner_thread = NoLoop
    /\ runner_lock = NoThread
    /\ loopState = [l \in LoopIds |-> "none"]
    /\ bgState = [l \in LoopIds |-> "none"]
    /\ executing = [l \in LoopIds |-> NoCoro]
    /\ coState = [c \in Coros |-> "new"]
    /\ coLoop = [c \in Coros |-> NoLoop]
    /\ coResult = [c \in Coros |-> "none"]
    /\ tpc = [th \in Threads |-> "idle"]
    /\ runs = 0
    /\ future = [th \in Threads |-> NoCoro]
    /\ got = [th \in Threads |-> [kind |-> "none", of |-> NoCoro]]

\* run(coro) -> _ensure_loop without `with self._lock`: nothing is waited for.
EnsureLoopEnterNoLock(th) ==
    /\ tpc[th] \in {"idle", "returned"}
    /\ runs < MaxRuns
    /\ runs' = runs + 1
    /\ future' = [future EXCEPT ![th] = runs + 1]
    /\ got' = [got EXCEPT ![th] = [kind |-> "none", of |-> NoCoro]]
    /\ runner_lock' = th
    /\ tpc' = [tpc EXCEPT ![th] = "ensure_check"]
    /\ UNCHANGED <<runner_loop, runner_thread, loopState, bgState, executing,
                   coState, coLoop, coResult>>
    /\ UNCHANGED <<poolVars, batchVars, restVars>>

\* run(coro) -> _ensure_loop, line 33: `with self._lock` is entered.
EnsureLoopEnter(th) ==
    /\ tpc[th] \in {"idle", "returned"}
    /\ runs < MaxRuns
    /\ runner_lock = NoThread
    /\ runs' = runs + 1
    /\ future' = [future EXCEPT ![th] = runs + 1]
    /\ got' = [got EXCEPT ![th] = [kind |-> "none", of |-> NoCoro]]
    /\ runner_lock' = th
    /\ tpc' = [tpc EXCEPT ![th] = "ensure_check"]
    /\ UNCHANGED <<runner_loop, runner_thread, loopState, bgState, executing,
                   coState, coLoop, coResult>>
    /\ UNCHANGED <<poolVars, batchVars, restVars>>

\* _ensure_loop, line 34: a loop is needed if there is none or it is not running.
LoopNeeded == runner_loop = NoLoop \/ loopState[runner_loop] # "running"

EnsureLoopCheck(th) ==
    /\ tpc[th] = "ensure_check"
    /\ IF LoopNeeded
          THEN /\ tpc' = [tpc EXCEPT ![th] = "ensure_create"]
               /\ runner_lock' = runner_lock
          ELSE /\ tpc' = [tpc EXCEPT ![th] = "submit"]
               /\ runner_lock' = NoThread
    /\ UNCHANGED <<runner_loop, runner_thread, loopState, bgState, executing,
                   coState, coLoop, coResult, runs, future, got>>
    /\ UNCHANGED <<poolVars, batchVars, restVars>>

\* _ensure_loop, lines 35-39: new_event_loop, Thread(target=self._run_loop).start().
EnsureLoopCreate(th) ==
    /\ tpc[th] = "ensure_create"
    /\ \E l \in LoopIds :
          /\ loopState[l] = "none"
          /\ \A k \in LoopIds : k < l => loopState[k] # "none"
          /\ loopState' = [loopState EXCEPT ![l] = "created"]
          /\ bgState' = [bgState EXCEPT ![l] = "started"]
          /\ runner_loop' = l
          /\ runner_thread' = l
    /\ tpc' = [tpc EXCEPT ![th] = "spin"]
    /\ UNCHANGED <<runner_lock, executing, coState, coLoop, coResult, runs, future, got>>
    /\ UNCHANGED <<poolVars, batchVars, restVars>>

\* _ensure_loop, lines 41-42: the busy wait ends once self._loop is running; the
\* lock is released on leaving the with block.
EnsureLoopSpin(th) ==
    /\ tpc[th] = "spin"
    /\ loopState[runner_loop] = "running"
    /\ runner_lock' = NoThread
    /\ tpc' = [tpc EXCEPT ![th] = "submit"]
    /\ UNCHANGED <<runner_loop, runner_thread, loopState, bgState, executing,
                   coState, coLoop, coResult, runs, future, got>>
    /\ UNCHANGED <<poolVars, batchVars, restVars>>

\* _run_loop, lines 44-48, in background thread k: run_forever on self._loop, which
\* raises RuntimeError if that loop is already running.
RunLoop(k) ==
    /\ bgState[k] = "started"
    /\ IF loopState[runner_loop] = "created"
          THEN /\ loopState' = [loopState EXCEPT ![runner_loop] = "running"]
               /\ bgState' = [bgState EXCEPT ![k] = "run_forever"]
          ELSE /\ bgState' = [bgState EXCEPT ![k] = "failed"]
               /\ loopState' = loopState
    /\ UNCHANGED <<runner_loop, runner_thread, runner_lock, executing,
                   coState, coLoop, coResult, tpc, runs, future, got>>
    /\ UNCHANGED <<poolVars, batchVars, restVars>>

\* run, line 61: run_coroutine_threadsafe(coro, self._loop).
Submit(th) ==
    /\ tpc[th] = "submit"
    /\ coState' = [coState EXCEPT ![future[th]] = "scheduled"]
    /\ coLoop' = [coLoop EXCEPT ![future[th]] = runner_loop]
    /\ tpc' = [tpc EXCEPT ![th] = "wait"]
    /\ UNCHANGED <<runner_loop, runner_thread, runner_lock, loopState, bgState,
                   executing, coResult, runs, future, got>>
    /\ UNCHANGED <<poolVars, batchVars, restVars>>

\* The loop's thread takes a coroutine that is ready (just scheduled, or woken at
\* an await) and runs its next step; a loop runs one step at a time.
LoopBegin(c) ==
    /\ coState[c] \in {"scheduled", "started"}
    /\ loopState[coLoop[c]] = "running"
    /\ executing[coLoop[c]] = NoCoro
    /\ executing' = [executing EXCEPT ![coLoop[c]] = c]
    /\ coState' = [coState EXCEPT ![c] = "started"]
    /\ UNCHANGED <<runner_loop, runner_thread, runner_lock, loopState, bgState,
                   coLoop, coResult, tpc, runs, future, got>>
    /\ UNCHANGED <<poolVars, batchVars, restVars>>

\* The running coroutine reaches an await and suspends: the loop's thread is free.
LoopAwait(c) ==
    /\ coState[c] = "started"
    /\ executing[coLoop[c]] = c
    /\ executing' = [executing EXCEPT ![coLoop[c]] = NoCoro]
    /\ UNCHANGED <<runner_loop, runner_thread, runner_lock, loopState, bgState,
                   coState, coLoop, coResult, tpc, runs, future, got>>
    /\ UNCHANGED <<poolVars, batchVars, restVars>>

\* The running coroutine returns a value or raises: its future is resolved.
LoopFinish(c) ==
    /\ coState[c] = "started"
    /\ executing[coLoop[c]] = c
    /\ executing' = [executing EXCEPT ![coLoop[c]] = NoCoro]
    /\ coState' = [coState EXCEPT ![c] = "done"]
    /\ \E k \in {"value", "exception"} : coResult' = [coResult EXCEPT ![c] = k]
    /\ UNCHANGED <<runner_loop, runner_thread, runner_lock, loopState, bgState,
                   coLoop, tpc, runs, future, got>>
    /\ UNCHANGED <<poolVars, batchVars, restVars>>

\* A future kept in a field of the runner, shared by all callers: the coroutine
\* submitted last.
FutureShared(th) == runs

\* run, lines 61-62: the future this call waits on is its own local.
Future(th) == future[th]

\* run, line 62: future.result(timeout=120) hands back the value, or re-raises
\* the exception, of the future's coroutine.
FutureResult(th) ==
    /\ tpc[th] = "wait"
    /\ coState[Future(th)] = "done"
    /\ got' = [got EXCEPT ![th] = [kind |-> coResult[Future(th)], of |-> Future(th)]]
    /\ tpc' = [tpc EXCEPT ![th] = "returned"]
    /\ UNCHANGED <<runner_loop, runner_thread, runner_lock, loopState, bgState,
                   executing, coState, coLoop, coResult, runs, future>>
    /\ UNCHANGED <<poolVars, batchVars, restVars>>

\* run, line 62: the 120 seconds pass before the coroutine is done: TimeoutError;
\* the coroutine is not cancelled.
FutureTimeout(th) ==
    /\ tpc[th] = "wait"
    /\ coState[Future(th)] # "done"
    /\ got' = [got EXCEPT ![th] = [kind |-> "timeout", of |-> NoCoro]]
    /\ tpc' = [tpc EXCEPT ![th] = "returned"]
    /\ UNCHANGED <<runner_loop, runner_thread, runner_lock, loopState, bgState,
                   executing, coState, coLoop, coResult, runs, future>>
    /\ UNCHANGED <<poolVars, batchVars, restVars>>

RunnerNext ==
    \/ \E th \in Threads : EnsureLoopEnter(th)
    \/ \E th \in Threads : EnsureLoopCheck(th)
    \/ \E th \in Threads : EnsureLoopCreate(th)
    \/ \E th \in Threads : EnsureLoopSpin(th)
    \/ \E k \in LoopIds : RunLoop(k)
    \/ \E th \in Threads : Submit(th)
    \/ \E c \in Coros : LoopBegin(c)
    \/ \E c \in Coros : LoopAwait(c)
    \/ \E c \in Coros : LoopFinish(c)
    \/ \E th \in Threads : FutureResult(th)
    \/ \E th \in Threads : FutureTimeout(th)

\* ------------------------------------------------------- batch conversion

\* TwitterPlaywrightSource.can_handle: TWITTER_URL_PATTERN matches.
TwitterCanHandle(url) ==
    /\ url.scheme \in {"http", "https"}
    /\ url.host \in {"twitter.com", "x.com", "www.twitter.com", "www.x.com"}
    /\ url.status

\* WebArticleSource.can_handle: an http(s) URL with a host that is not Twitter's.
WebCanHandle(url) ==
    /\ url.scheme \in {"http", "https"}
    /\ url.host \notin {"twitter.com", "x.com", "www.twitter.com", "www.x.com"}
    /\ url.host # ""

\* _SOURCES with the web source registered first.
SOURCES_WebFirst == <<"WebArticleSource", "TwitterPlaywrightSource">>

\* _SOURCES, in priority order.
SOURCES == <<"TwitterPlaywrightSource", "WebArticleSource">>

CanHandle(cls, url) ==
    IF cls = "TwitterPlaywrightSource" THEN TwitterCanHandle(url) ELSE WebCanHandle(url)

\* get_source_for_url: the first registered class that can handle the URL.
GetSourceForUrl(url) ==
    IF \E k \in 1..Len(SOURCES) : CanHandle(SOURCES[k], url)
       THEN SOURCES[CHOOSE k \in 1..Len(SOURCES) :
                        /\ CanHandle(SOURCES[k], url)
                        /\ \A j \in 1..(k - 1) : ~CanHandle(SOURCES[j], url)]
       ELSE "None"

SeqsUpTo(S, n) == UNION {[1..k -> S] : k \in 0..n}

\* No request is being handled.
BatchOff ==
    /\ endpoint = "off"
    /\ links = <<>>
    /\ reqCookies = FALSE
    /\ hpc = "off"
    /\ sources = <<>>
    /\ idx = 1
    /\ articles = <<>>
    /\ errors = <<>>
    /\ fetchState = [p \in Positions |-> "none"]
    /\ fetchStarts = [p \in Positions |-> 0]
    /\ pdfCalls = <<>>
    /\ events = <<>>
    /\ response = [status |-> 0]

\* A request has arrived at one of the three conversion routes.
BatchInit ==
    /\ endpoint \in Endpoints
    /\ links \in SeqsUpTo(Urls, MaxUrls)
    /\ reqCookies \in BOOLEAN
    /\ hpc = "received"
    /\ sources = <<>>
    /\ idx = 1
    /\ articles = <<>>
    /\ errors = <<>>
    /\ fetchState = [p \in Positions |-> "none"]
    /\ fetchStarts = [p \in Positions |-> 0]
    /\ pdfCalls = <<>>
    /\ events = <<>>
    /\ response = [status |-> 0]

Streaming == endpoint \in {"convert_stream", "bookmarks_convert"}

IsUnsupported(url) == GetSourceForUrl(url) = "None"
IsTwitter(url) == GetSourceForUrl(url) = "TwitterPlaywrightSource"

\* convert lines 69-70, convert_stream 250-251, bookmarks_convert 491-492.
RejectNoLinks ==
    /\ hpc = "received"
    /\ links = <<>>
    /\ response' = [status |-> 400, error |-> "No links provided"]
    /\ hpc' = "done"
    /\ UNCHANGED <<endpoint, links, reqCookies, sources, idx, articles, errors,
                   fetchState, fetchStarts, pdfCalls, events>>
    /\ UNCHANGED <<poolVars, runnerVars, restVars>>

\* convert lines 78-89, convert_stream 259-270.
RejectUnsupported ==
    /\ hpc = "received"
    /\ links # <<>>
    /\ endpoint \in {"convert", "convert_stream"}
    /\ SelectSeq(links, IsUnsupported) # <<>>
    /\ response' = [status |-> 400, error |-> "Unsupported URLs",
                    urls |-> SelectSeq(links, IsUnsupported)]
    /\ hpc' = "done"
    /\ UNCHANGED <<endpoint, links, reqCookies, sources, idx, articles, errors,
                   fetchState, fetchStarts, pdfCalls, events>>
    /\ UNCHANGED <<poolVars, runnerVars, restVars>>

\* convert lines 92-104, convert_stream 273-285.
RejectNoCookies ==
    /\ hpc = "received"
    /\ links # <<>>
    /\ endpoint \in {"convert", "convert_stream"}
    /\ SelectSeq(links, IsUnsupported) = <<>>
    /\ SelectSeq(links, IsTwitter) # <<>>
    /\ ~reqCookies
    /\ response' = [status |-> 400, error |-> "Twitter cookies required",
                    urls |-> SelectSeq(links, IsTwitter), setup_url |-> "/setup"]
    /\ hpc' = "done"
    /\ UNCHANGED <<endpoint, links, reqCookies, sources, idx, articles, errors,
                   fetchState, fetchStarts, pdfCalls, events>>
    /\ UNCHANGED <<poolVars, runnerVars, restVars>>

\* The batch entered the loop whatever the sources found for its URLs.
AcceptAnySource ==
    /\ hpc = "received"
    /\ links # <<>>
    /\ \/ endpoint = "bookmarks_convert"
       \/ SelectSeq(links, IsTwitter) # <<>> => reqCookies
    /\ sources' = [p \in 1..Len(links) |-> GetSourceForUrl(links[p])]
    /\ idx' = 1
    /\ hpc' = "loop"
    /\ IF Streaming
          THEN /\ events' = <<[type |-> "start", total |-> Len(links)]>>
               /\ response' = [status |-> 200, stream |-> TRUE]
          ELSE UNCHANGED <<events, response>>
    /\ UNCHANGED <<endpoint, links, reqCookies, articles, errors,
                   fetchState, fetchStarts, pdfCalls>>
    /\ UNCHANGED <<poolVars, runnerVars, restVars>>

\* The batch entered the loop whether or not the request carried cookies.
AcceptAnyCookies ==
    /\ hpc = "received"
    /\ links # <<>>
    /\ \/ endpoint = "bookmarks_convert"
       \/ SelectSeq(links, IsUnsupported) = <<>>
    /\ sources' = [p \in 1..Len(links) |-> GetSourceForUrl(links[p])]
    /\ idx' = 1
    /\ hpc' = "loop"
    /\ IF Streaming
          THEN /\ events' = <<[type |-> "start", total |-> Len(links)]>>
               /\ response' = [status |-> 200, stream |-> TRUE]
          ELSE UNCHANGED <<events, response>>
    /\ UNCHANGED <<endpoint, links, reqCookies, articles, errors,
                   fetchState, fetchStarts, pdfCalls>>
    /\ UNCHANGED <<poolVars, runnerVars, restVars>>

\* The batch is accepted: sources_for_urls is built and the loop is entered; the
\* streaming routes answer with the stream, whose first event is `start`
\* (convert_stream 294, bookmarks_convert 511).
Accept ==
    /\ hpc = "received"
    /\ links # <<>>
    /\ \/ endpoint = "bookmarks_convert"
       \/ /\ SelectSeq(links, IsUnsupported) = <<>>
          /\ SelectSeq(links, IsTwitter) # <<>> => reqCookies
    /\ sources' = [p \in 1..Len(links) |-> GetSourceForUrl(links[p])]
    /\ idx' = 1
    /\ hpc' = "loop"
    /\ IF Streaming
          THEN /\ events' = <<[type |-> "start", total |-> Len(links)]>>
               /\ response' = [status |-> 200, stream |-> TRUE]
          ELSE UNCHANGED <<events, response>>
    /\ UNCHANGED <<endpoint, links, reqCookies, articles, errors,
                   fetchState, fetchStarts, pdfCalls>>
    /\ UNCHANGED <<poolVars, runnerVars, restVars>>

Emit(evs) == events' = IF Streaming THEN events \o evs ELSE events

ProgressEvent(p, st) ==
    [type |-> "progress", current |-> p, total |-> Len(sources), url |-> links[p], status |-> st]

\* The loop takes the next URL (convert 112-121, convert_stream 296-306,
\* bookmarks_convert 513-526): the `processing` event, then either the
\* "Unsupported URL" failure (bookmarks_convert 519-522) or run_async(source.fetch(url)).
BeginUrl ==
    /\ hpc = "loop"
    /\ idx <= Len(sources)
    /\ IF sources[idx] = "None"
          THEN /\ errors' = Append(errors, [pos |-> idx, url |-> links[idx],
                                            error |-> "Unsupported URL"])
               /\ Emit(<<ProgressEvent(idx, "processing"), ProgressEvent(idx, "failed")>>)
               /\ idx' = idx + 1
               /\ UNCHANGED <<hpc, fetchState, fetchStarts>>
          ELSE /\ Emit(<<ProgressEvent(idx, "processing")>>)
               /\ fetchState' = [fetchState EXCEPT ![idx] = "running"]
               /\ fetchStarts' = [fetchStarts EXCEPT ![idx] = @ + 1]
               /\ hpc' = "wait"
               /\ UNCHANGED <<errors, idx>>
    /\ UNCHANGED <<endpoint, links, reqCookies, sources, articles, pdfCalls, response>>
    /\ UNCHANGED <<poolVars, runnerVars, restVars>>

\* source.fetch(url) returns an Article on the event loop.
FetchReturns(p) ==
    /\ fetchState[p] = "running"
    \* TwitterPlaywrightSource.fetch, lines 92-93: no cookies, ValueError.
    /\ ~(sources[p] = "TwitterPlaywrightSource" /\ ~reqCookies)
    /\ fetchState' = [fetchState EXCEPT ![p] = "ok"]
    /\ UNCHANGED <<endpoint, links, reqCookies, hpc, sources, idx, articles, errors,
                   fetchStarts, pdfCalls, events, response>>
    /\ UNCHANGED <<poolVars, runnerVars, restVars>>

\* source.fetch(url) raises on the event loop.
FetchRaises(p) ==
    /\ fetchState[p] = "running"
    /\ fetchState' = [fetchState EXCEPT ![p] = "raised"]
    /\ UNCHANGED <<endpoint, links, reqCookies, hpc, sources, idx, articles, errors,
                   fetchStarts, pdfCalls, events, response>>
    /\ UNCHANGED <<poolVars, runnerVars, restVars>>

\* The except branch, with a `break` after recording the error.
RecordFailureAndStop(p, msg) ==
    /\ errors' = Append(errors, [pos |-> p, url |-> links[p], error |-> msg])
    /\ Emit(<<ProgressEvent(p, "failed")>>)
    /\ idx' = Len(sources) + 1
    /\ hpc' = "loop"
    /\ articles' = articles

\* The except branch, without the errors.append.
RecordFailureDropped(p, msg) ==
    /\ errors' = errors
    /\ Emit(<<ProgressEvent(p, "failed")>>)
    /\ idx' = p + 1
    /\ hpc' = "loop"
    /\ articles' = articles

\* convert 125-127, convert_stream 311-315, bookmarks_convert 531-534: the
\* exception is recorded for the URL and the loop goes on.
RecordFailure(p, msg) ==
    /\ errors' = Append(errors, [pos |-> p, url |-> links[p], error |-> msg])
    /\ Emit(<<ProgressEvent(p, "failed")>>)
    /\ idx' = p + 1
    /\ hpc' = "loop"
    /\ articles' = articles

\* The article is collected without its `success` event.
RecordSuccessQuiet(p) ==
    /\ articles' = Append(articles, [pos |-> p, url |-> links[p]])
    /\ events' = events
    /\ idx' = p + 1
    /\ hpc' = "loop"
    /\ errors' = errors

\* convert 121-123, convert_stream 306-309, bookmarks_convert 526-529.
RecordSuccess(p) ==
    /\ articles' = Append(articles, [pos |-> p, url |-> links[p]])
    /\ Emit(<<ProgressEvent(p, "success")>>)
    /\ idx' = p + 1
    /\ hpc' = "loop"
    /\ errors' = errors

\* run_async returns the article, or re-raises what fetch raised.
FetchDone ==
    /\ hpc = "wait"
    /\ fetchState[idx] \in {"ok", "raised"}
    /\ IF fetchState[idx] = "ok"
          THEN RecordSuccess(idx)
          ELSE RecordFailure(idx, "fetch failed")
    /\ UNCHANGED <<endpoint, links, reqCookies, sources,
                   fetchState, fetchStarts, pdfCalls, response>>
    /\ UNCHANGED <<poolVars, runnerVars, restVars>>

\* run_async raises TimeoutError (AsyncRunner.run, line 62) while the fetch is
\* still running on the event loop; the handler records it like any exception.
FetchTimedOut ==
    /\ hpc = "wait"
    /\ fetchState[idx] = "running"
    /\ RecordFailure(idx, "TimeoutError")
    /\ UNCHANGED <<endpoint, links, reqCookies, sources,
                   fetchState, fetchStarts, pdfCalls, response>>
    /\ UNCHANGED <<poolVars, runnerVars, restVars>>

\* The all-failed test never being true.
AllFailedNever == FALSE

\* convert 129 (`not articles and errors`); convert_stream 318 and
\* bookmarks_convert 536 (the else of `if articles`).
AllFailed ==
    IF endpoint = "convert" THEN articles = <<>> /\ errors # <<>> ELSE articles = <<>>

ErrorDetails == [k \in 1..Len(errors) |-> [url |-> errors[k].url, error |-> errors[k].error]]

\* The all-failed branch ending the stream without its error event.
FinishAllFailedSilent ==
    /\ hpc = "loop"
    /\ idx > Len(sources)
    /\ AllFailed
    /\ IF Streaming
          THEN UNCHANGED <<events, response>>
          ELSE /\ response' = [status |-> 500, error |-> "All conversions failed",
                               details |-> ErrorDetails]
               /\ events' = events
    /\ hpc' = "done"
    /\ UNCHANGED <<endpoint, links, reqCookies, sources, idx, articles, errors,
                   fetchState, fetchStarts, pdfCalls>>
    /\ UNCHANGED <<poolVars, runnerVars, restVars>>

\* convert 129-134, convert_stream 351-353, bookmarks_convert 569-571.
FinishAllFailed ==
    /\ hpc = "loop"
    /\ idx > Len(sources)
    /\ AllFailed
    /\ IF Streaming
          THEN /\ Emit(<<[type |-> "error", error |-> "All conversions failed",
                          details |-> ErrorDetails]>>)
               /\ response' = response
          ELSE /\ response' = [status |-> 500, error |-> "All conversions failed",
                               details |-> ErrorDetails]
               /\ events' = events
    /\ hpc' = "done"
    /\ UNCHANGED <<endpoint, links, reqCookies, sources, idx, articles, errors,
                   fetchState, fetchStarts, pdfCalls>>
    /\ UNCHANGED <<poolVars, runnerVars, restVars>>

Results == [k \in 1..Len(articles) |-> [url |-> articles[k].url, status |-> "success"]]

\* convert 153-164 counts what it collected; the streaming routes report
\* len(sources_for_urls) as the total (convert_stream 341-345, bookmarks_convert 559-563).
Summary ==
    [total |-> IF endpoint = "convert" THEN Len(articles) + Len(errors) ELSE Len(sources),
     succeeded |-> Len(articles),
     failed |-> Len(errors)]

\* The body of the successful response; `errors` is sent as null when empty.
FinalResult ==
    [success |-> TRUE, articles |-> Results,
     errors |-> ErrorDetails, summary |-> Summary]

\* convert 137-166, convert_stream 318-347, bookmarks_convert 536-565:
\* generate_combined_pdf returns the path of the PDF.
FinishPdf ==
    /\ hpc = "loop"
    /\ idx > Len(sources)
    /\ ~AllFailed
    /\ pdfCalls' = Append(pdfCalls, Len(articles))
    /\ IF Streaming
          THEN /\ Emit(<<[type |-> "generating_pdf"],
                         [type |-> "complete"] @@ FinalResult>>)
               /\ response' = response
          ELSE /\ response' = [status |-> 200] @@ FinalResult
               /\ events' = events
    /\ hpc' = "done"
    /\ UNCHANGED <<endpoint, links, reqCookies, sources, idx, articles, errors,
                   fetchState, fetchStarts>>
    /\ UNCHANGED <<poolVars, runnerVars, restVars>>

\* convert 167-169, convert_stream 349-350, bookmarks_convert 567-568:
\* generate_combined_pdf raises.
FinishPdfRaises ==
    /\ hpc = "loop"
    /\ idx > Len(sources)
    /\ ~AllFailed
    /\ pdfCalls' = Append(pdfCalls, Len(articles))
    /\ IF Streaming
          THEN /\ Emit(<<[type |-> "generating_pdf"],
                         [type |-> "error", error |-> "PDF generation failed"]>>)
               /\ response' = response
          ELSE /\ response' = [status |-> 500, error |-> "PDF generation failed"]
               /\ events' = events
    /\ hpc' = "done"
    /\ UNCHANGED <<endpoint, links, reqCookies, sources, idx, articles, errors,
                   fetchState, fetchStarts>>
    /\ UNCHANGED <<poolVars, runnerVars, restVars>>

BatchNext ==
    \/ RejectNoLinks
    \/ RejectUnsupported
    \/ RejectNoCookies
    \/ Accept
    \/ BeginUrl
    \/ \E p \in Positions : FetchReturns(p)
    \/ \E p \in Positions : FetchRaises(p)
    \/ FetchDone
    \/ FetchTimedOut
    \/ FinishAllFailed
    \/ FinishPdf
    \/ FinishPdfRaises

\* ------------------------------------------------- BookmarkScraper.scrape

\* No scrape is under way.
ScrapeOff ==
    /\ spc = "off"
    /\ bookmarks = <<>>
    /\ seen_ids = {}
    /\ empty_scroll_count = 0
    /\ passes = <<>>
    /\ callbacks = <<>>
    /\ resighted = FALSE

\* scrape, lines 199-201: the bookmarks page has loaded and the loop is entered.
ScrapeInit ==
    /\ spc = "loop"
    /\ bookmarks = <<>>
    /\ seen_ids = {}
    /\ empty_scroll_count = 0
    /\ passes = <<>>
    /\ callbacks = <<>>
    /\ resighted = FALSE

ScrapeFrame == <<poolVars, runnerVars, batchVars>>

\* scrape, lines 215-216: on_bookmark(entry, len(bookmarks)), bookmarks being `out`.
OnBookmark(made, entry, out) ==
    Append(made, [entry |-> entry, running_total |-> Len(out)])

\* The for loop that collects every entry with a tweet id, seen before or not.
RECURSIVE ExtractFromUnseenOrNot(_, _, _)
ExtractFromUnseenOrNot(elems, k, acc) ==
    IF k > Len(elems)
       THEN acc
       ELSE IF elems[k] # NoId
               THEN ExtractFromUnseenOrNot(elems, k + 1,
                        [seen |-> acc.seen \cup {elems[k]},
                         out |-> Append(acc.out, elems[k]),
                         new |-> acc.new + 1,
                         calls |-> OnBookmark(acc.calls, elems[k],
                                              Append(acc.out, elems[k])),
                         again |-> acc.again \/ elems[k] \in acc.seen])
               ELSE ExtractFromUnseenOrNot(elems, k + 1, acc)

\* scrape, lines 209-216, the for loop over tweet_elements from element k on:
\* acc = [seen |-> seen_ids, out |-> bookmarks, new |-> new_count,
\* calls |-> the on_bookmark calls made, again |-> a seen tweet was met again].
RECURSIVE ExtractFrom(_, _, _)
ExtractFrom(elems, k, acc) ==
    IF k > Len(elems)
       THEN acc
       ELSE IF elems[k] # NoId /\ elems[k] \notin acc.seen
               THEN ExtractFrom(elems, k + 1,
                        [seen |-> acc.seen \cup {elems[k]},
                         out |-> Append(acc.out, elems[k]),
                         new |-> acc.new + 1,
                         calls |-> OnBookmark(acc.calls, elems[k],
                                              Append(acc.out, elems[k])),
                         again |-> acc.again])
               ELSE ExtractFrom(elems, k + 1,
                        [acc EXCEPT !.again = acc.again \/ elems[k] \in acc.seen])

\* The pass that never resets the run of empty scrolls.
NextEmptyCountNoReset(new_count) == empty_scroll_count + 1

\* scrape, lines 215-220.
NextEmptyCount(new_count) ==
    IF new_count > 0 THEN 0 ELSE empty_scroll_count + 1

\* scrape, lines 203-224: one iteration of the while loop, on the tweet elements
\* the page shows now; then the page is scrolled.
ScrollPass ==
    /\ spc = "loop"
    /\ empty_scroll_count < MAX_EMPTY_SCROLLS
    /\ \E elems \in SeqsUpTo(PageIds \cup {NoId}, MaxVisible) :
          LET r == ExtractFrom(elems, 1, [seen |-> seen_ids, out |-> bookmarks,
                                          new |-> 0, calls |-> callbacks,
                                          again |-> resighted])
          IN /\ seen_ids' = r.seen
             /\ bookmarks' = r.out
             /\ callbacks' = r.calls
             /\ resighted' = r.again
             /\ empty_scroll_count' = NextEmptyCount(r.new)
             /\ passes' = Append(passes, r.new)
    /\ spc' = spc
    /\ UNCHANGED ScrapeFrame
    /\ RestUnchangedExcept("scrape")

\* scrape, lines 203 and 226-227: the while condition is false; bookmarks is returned.
ScrapeReturn ==
    /\ spc = "loop"
    /\ ~(empty_scroll_count < MAX_EMPTY_SCROLLS)
    /\ spc' = "returned"
    /\ UNCHANGED <<bookmarks, seen_ids, empty_scroll_count, passes, callbacks,
                   resighted>>
    /\ UNCHANGED ScrapeFrame
    /\ RestUnchangedExcept("scrape")

ScrapeNext ==
    \/ ScrollPass
    \/ ScrapeReturn

\* ----------------------------------------------------- get_source_for_url

\* get_source_for_url is not being called.
SourceOff ==
    /\ gsUrl = [scheme |-> "", host |-> "", status |-> FALSE]
    /\ gsKwargs = {}
    /\ gsK = 0
    /\ gsTried = <<>>
    /\ gsResult = "pending"

\* get_source_for_url(url, **kwargs) is called.
SourceInit ==
    /\ gsUrl \in UrlShapes
    /\ gsKwargs \in SUBSET Kwargs
    /\ gsK = 1
    /\ gsTried = <<>>
    /\ gsResult = "pending"

\* _get_init_params: the parameters of the class's __init__
\* (TwitterPlaywrightSource: cookies; WebArticleSource: timeout).
GetInitParams(cls) ==
    IF cls = "TwitterPlaywrightSource" THEN {"cookies"} ELSE {"timeout"}

\* get_source_for_url, lines 36-42: one iteration of the for loop: the class is
\* instantiated with the keyword arguments its constructor takes, and returned
\* if it can handle the URL.
TrySource ==
    /\ gsResult = "pending"
    /\ gsK \in 1..Len(SOURCES)
    /\ LET cls == SOURCES[gsK]
       IN /\ gsTried' = Append(gsTried, [cls |-> cls, args |-> gsKwargs \cap GetInitParams(cls)])
          /\ IF CanHandle(cls, gsUrl)
                THEN gsResult' = cls /\ gsK' = gsK
                ELSE gsResult' = gsResult /\ gsK' = gsK + 1
    /\ UNCHANGED <<gsUrl, gsKwargs>>
    /\ UNCHANGED <<poolVars, runnerVars, batchVars>>
    /\ RestUnchangedExcept("source")

\* get_source_for_url, line 43: the loop is over, None is returned.
NoSource ==
    /\ gsResult = "pending"
    /\ gsK = Len(SOURCES) + 1
    /\ gsResult' = "None"
    /\ UNCHANGED <<gsUrl, gsKwargs, gsK, gsTried>>
    /\ UNCHANGED <<poolVars, runnerVars, batchVars>>
    /\ RestUnchangedExcept("source")

SourceNext ==
    \/ TrySource
    \/ NoSource

\* --------------------------------------------------- generate_combined_pdf

\* generate_combined_pdf is not being called.
PdfOff ==
    /\ pdfArticles = <<>>
    /\ gpc = "off"
    /\ pdfOutcome = "none"
    /\ dirCreated = FALSE
    /\ pdfWritten = 0

\* generate_combined_pdf(articles) is called.
PdfInit ==
    /\ pdfArticles \in SeqsUpTo(Contents, MaxArticles)
    /\ gpc = "called"
    /\ pdfOutcome = "none"
    /\ dirCreated = FALSE
    /\ pdfWritten = 0

\* len(a.content.encode("utf-8")).
Utf8Len(content) == content.ascii + 3 * content.wide

\* generate_combined_pdf, line 69: the sum over the articles, from article k on.
RECURSIVE TotalSizeFrom(_, _)
TotalSizeFrom(arts, k) ==
    IF k > Len(arts) THEN 0 ELSE Utf8Len(arts[k]) + TotalSizeFrom(arts, k + 1)

\* The size test with >= for >.
TooLargeInclusive(total_size) == total_size >= MAX_CONTENT_SIZE

\* generate_combined_pdf, line 70.
TooLarge(total_size) == total_size > MAX_CONTENT_SIZE

\* generate_combined_pdf, lines 65-77: the two checks.
PdfCheck ==
    /\ gpc = "called"
    /\ IF pdfArticles = <<>>
          THEN pdfOutcome' = "ValueError" /\ gpc' = "done"
          ELSE IF TooLarge(TotalSizeFrom(pdfArticles, 1))
                  THEN pdfOutcome' = "ContentTooLargeError" /\ gpc' = "done"
                  ELSE pdfOutcome' = pdfOutcome /\ gpc' = "mkdir"
    /\ UNCHANGED <<pdfArticles, dirCreated, pdfWritten>>
    /\ UNCHANGED <<poolVars, runnerVars, batchVars>>
    /\ RestUnchangedExcept("pdf")

\* generate_combined_pdf, lines 79-95: the output directory is made, the file
\* name and the HTML are built.
PdfMkdir ==
    /\ gpc = "mkdir"
    /\ dirCreated' = TRUE
    /\ gpc' = "write"
    /\ UNCHANGED <<pdfArticles, pdfOutcome, pdfWritten>>
    /\ UNCHANGED <<poolVars, runnerVars, batchVars>>
    /\ RestUnchangedExcept("pdf")

\* generate_combined_pdf, lines 104-108: write_pdf writes the file, or raises.
PdfWrite ==
    /\ gpc = "write"
    /\ pdfWritten' = pdfWritten + 1
    /\ \E o \in {"path", "WriteError"} : pdfOutcome' = o
    /\ gpc' = "done"
    /\ UNCHANGED <<pdfArticles, dirCreated>>
    /\ UNCHANGED <<poolVars, runnerVars, batchVars>>
    /\ RestUnchangedExcept("pdf")

PdfNext ==
    \/ PdfCheck
    \/ PdfMkdir
    \/ PdfWrite

\* -------------------------------------------------- GET /download/<filename>

DownloadOff ==
    /\ dlName = <<>>
    /\ dlExists = FALSE
    /\ dpc = "off"
    /\ dlResponse = [status |-> 0]

\* A request for /download/<dlName> arrives.
DownloadInit ==
    /\ \E stem \in SeqsUpTo(StemChars, MaxStem), ext \in Extensions :
          /\ stem \o ext # <<>>
          /\ dlName = stem \o ext
    /\ dlExists \in BOOLEAN
    /\ dpc = "request"
    /\ dlResponse = [status |-> 0]

MapSeq(f(_), q) == [k \in 1..Len(q) |-> f(q[k])]

\* secure_filename: unicodedata.normalize("NFKD", .).encode("ascii", "ignore"):
\* the accent is split off and dropped.
ToAscii(c) == IF c = "e+acute" THEN "e" ELSE c

\* secure_filename: the path separator is replaced by a space.
SepToSpace(c) == IF c = "/" THEN " " ELSE c

\* secure_filename: "_".join(filename.split()), from character k on; `open` says
\* that a word has been written and a separator is due before the next one.
RECURSIVE SplitJoinFrom(_, _, _, _)
SplitJoinFrom(q, k, open, inWord) ==
    IF k > Len(q)
       THEN <<>>
       ELSE IF q[k] = " "
               THEN SplitJoinFrom(q, k + 1, open, FALSE)
               ELSE (IF open /\ ~inWord THEN <<"_">> ELSE <<>>)
                      \o <<q[k]>> \o SplitJoinFrom(q, k + 1, TRUE, TRUE)

\* secure_filename: _filename_ascii_strip_re removes all but [A-Za-z0-9_.-].
IsSafeChar(c) ==
    c \in {"a", "e", "p", "d", "f", "t", "x", "P", "D", "F", "_", ".", "-"}

\* str.strip("._").
RECURSIVE StripLeft(_)
StripLeft(q) ==
    IF q # <<>> /\ Head(q) \in {".", "_"} THEN StripLeft(Tail(q)) ELSE q

RECURSIVE StripRight(_)
StripRight(q) ==
    IF q # <<>> /\ q[Len(q)] \in {".", "_"}
       THEN StripRight(SubSeq(q, 1, Len(q) - 1))
       ELSE q

\* The file name handed on as it came.
SecureFilenameUnchanged(filename) == filename

\* werkzeug.utils.secure_filename, as download calls it (line 27).
SecureFilename(filename) ==
    LET ascii == MapSeq(ToAscii, filename)
        spaced == MapSeq(SepToSpace, ascii)
        joined == SplitJoinFrom(spaced, 1, FALSE, FALSE)
        kept == SelectSeq(joined, IsSafeChar)
    IN StripRight(StripLeft(kept))

\* str.endswith(".pdf").
EndsWithPdf(q) ==
    Len(q) >= 4 /\ SubSeq(q, Len(q) - 3, Len(q)) = <<".", "p", "d", "f">>

HasSeparator(q) == \E k \in 1..Len(q) : q[k] = "/"

\* The route /download/<filename> does not match a path with a further "/":
\* Flask answers 404 without calling download.
DownloadNoRoute ==
    /\ dpc = "request"
    /\ HasSeparator(dlName)
    /\ dlResponse' = [status |-> 404, error |-> "Not Found"]
    /\ dpc' = "done"
    /\ UNCHANGED <<dlName, dlExists>>
    /\ UNCHANGED <<poolVars, runnerVars, batchVars>>
    /\ RestUnchangedExcept("download")

\* download, lines 24-46.
Download ==
    /\ dpc = "request"
    /\ ~HasSeparator(dlName)
    /\ LET safe_filename == SecureFilename(dlName)
       IN dlResponse' =
             IF ~EndsWithPdf(safe_filename)
                THEN [status |-> 400, error |-> "Only PDF files can be downloaded"]
                ELSE IF safe_filename = <<>> \/ safe_filename # dlName
                        THEN [status |-> 400, error |-> "Invalid filename"]
                        ELSE IF ~dlExists
                                THEN [status |-> 404, error |-> "File not found"]
                                ELSE [status |-> 200, file |-> safe_filename]
    /\ dpc' = "done"
    /\ UNCHANGED <<dlName, dlExists>>
    /\ UNCHANGED <<poolVars, runnerVars, batchVars>>
    /\ RestUnchangedExcept("download")

DownloadNext ==
    \/ DownloadNoRoute
    \/ Download

\* ------------------------------------------- Config: the cookie file

\* A cookie string is a sequence of tokens: names and values, "=", ";", and the
\* white space "SP" (one space), "SP2" (two), "SP4" (four), "TAB" and "NL".
WhiteSpace == {"SP", "SP2", "SP4", "TAB", "NL"}

\* Lines a user may paste: standard strings and rows of the DevTools table.
CookieLines ==
    { <<"ct0", "=", "v", ";", "SP", "lang", "=", "w">>,
      <<"ct0", "TAB", "v", "TAB", ".x.com">>,
      <<"auth_token", "SP4", "w", "SP4", ".x.com">>,
      <<"lang", "TAB", "w">>,
      <<"ct0", "SP2", "v">>,
      <<>> }

RECURSIVE JoinWith(_, _)
JoinWith(pieces, sep) ==
    IF pieces = <<>>
       THEN <<>>
       ELSE IF Len(pieces) = 1
               THEN pieces[1]
               ELSE pieces[1] \o sep \o JoinWith(Tail(pieces), sep)

\* What save_cookies may be called with.
CookieInputs ==
    { JoinWith(ls, <<"NL">>) : ls \in SeqsUpTo(CookieLines, MaxLines) \ {<<>>} }

ConfigOff ==
    /\ cfgpc = "off"
    /\ cookieFile = [kind |-> "absent"]
    /\ lastInput = <<>>
    /\ asSaved = FALSE
    /\ loaded = [kind |-> "not called"]
    /\ saves = 0

\* A fresh configuration directory, or one holding a file of another origin.
ConfigInit ==
    /\ cfgpc = "ready"
    /\ cookieFile \in {[kind |-> "absent"], [kind |-> "garbage"]}
    /\ lastInput = <<>>
    /\ asSaved = FALSE
    /\ loaded = [kind |-> "not called"]
    /\ saves = 0

\* str.strip(), token-wise.
Trim(q) ==
    LET keep == {k \in 1..Len(q) : q[k] \notin WhiteSpace}
    IN IF keep = {}
          THEN <<>>
          ELSE SubSeq(q, CHOOSE k \in keep : \A j \in keep : k <= j,
                         CHOOSE k \in keep : \A j \in keep : k >= j)

\* str.split / re.split: the pieces of q between the tokens of seps.
RECURSIVE SplitAt(_, _)
SplitAt(q, seps) ==
    LET at == {k \in 1..Len(q) : q[k] \in seps}
    IN IF at = {}
          THEN <<q>>
          ELSE LET k == CHOOSE i \in at : \A j \in at : i <= j
               IN <<SubSeq(q, 1, k - 1)>> \o SplitAt(SubSeq(q, k + 1, Len(q)), seps)

\* cookies[name] = value on a dict that keeps insertion order.
PutCookie(jar, name, value) ==
    IF \E k \in 1..Len(jar) : jar[k][1] = name
       THEN [k \in 1..Len(jar) |->
                IF jar[k][1] = name THEN <<name, value>> ELSE jar[k]]
       ELSE Append(jar, <<name, value>>)

\* _parse_devtools_cookies: the loop over the lines, from line k on.
RECURSIVE DevtoolsFrom(_, _, _)
DevtoolsFrom(lines, k, jar) ==
    IF k > Len(lines)
       THEN jar
       ELSE LET line == Trim(lines[k])
                split == SplitAt(line, {"TAB", "SP2", "SP4"})
                parts == SelectSeq([i \in 1..Len(split) |-> Trim(split[i])],
                                   LAMBDA part : part # <<>>)
            IN IF /\ line # <<>>
                  /\ Len(parts) >= 2
                  /\ parts[1] \in {<<"auth_token">>, <<"ct0">>, <<"twid">>, <<"guest_id">>}
                  THEN DevtoolsFrom(lines, k + 1, PutCookie(jar, parts[1], parts[2]))
                  ELSE DevtoolsFrom(lines, k + 1, jar)

\* _parse_devtools_cookies.
ParseDevtoolsCookies(raw_input) ==
    LET jar == DevtoolsFrom(SplitAt(Trim(raw_input), {"NL"}), 1, <<>>)
    IN JoinWith([k \in 1..Len(jar) |-> jar[k][1] \o <<"=">> \o jar[k][2]],
                <<";", "SP">>)

\* _parse_cookie_input.
ParseCookieInput(raw) ==
    LET raw_input == Trim(raw)
        tokens == {raw_input[k] : k \in 1..Len(raw_input)}
        has_tabs == "TAB" \in tokens
        has_multi_spaces == "SP4" \in tokens
        has_multiple_lines == "NL" \in tokens
        lines == SplitAt(raw_input, {"NL"})
        has_no_equals == \A k \in 1..Len(lines[1]) : lines[1][k] # "="
        starts_with_cookie_name ==
            \E k \in 1..Len(lines) :
                /\ Trim(lines[k]) # <<>>
                /\ Head(Trim(lines[k])) \in {"ct0", "auth_token", "twid", "guest_id"}
    IN IF starts_with_cookie_name /\ (has_tabs \/ has_multi_spaces)
          THEN ParseDevtoolsCookies(raw_input)
          ELSE IF (has_tabs \/ has_multi_spaces) /\ has_multiple_lines /\ has_no_equals
                  THEN ParseDevtoolsCookies(raw_input)
                  ELSE raw_input

\* json.dumps of the string: a tab and a line feed are written as escapes.
JsonDumps(text) ==
    JoinWith([k \in 1..Len(text) |->
                 IF text[k] = "TAB" THEN <<"\\", "t">>
                 ELSE IF text[k] = "NL" THEN <<"\\", "n">>
                 ELSE <<text[k]>>], <<>>)

\* The escapes read as they stand.
JsonLoadsRaw(body) == body

\* json.loads of the string.
RECURSIVE JsonLoads(_)
JsonLoads(body) ==
    IF body = <<>>
       THEN <<>>
       ELSE IF Head(body) = "\\" /\ Len(body) >= 2
               THEN <<IF body[2] = "t" THEN "TAB" ELSE "NL">>
                      \o JsonLoads(SubSeq(body, 3, Len(body)))
               ELSE <<Head(body)>> \o JsonLoads(Tail(body))

\* save_cookies, lines 74-87.
SaveCookies ==
    /\ cfgpc = "ready"
    /\ saves < MaxSaves
    /\ \E raw \in CookieInputs :
          /\ cookieFile' = [kind |-> "json",
                            cookies |-> JsonDumps(ParseCookieInput(raw))]
          /\ lastInput' = raw
    /\ asSaved' = TRUE
    /\ saves' = saves + 1
    /\ loaded' = [kind |-> "not called"]
    /\ UNCHANGED cfgpc
    /\ UNCHANGED <<poolVars, runnerVars, batchVars>>
    /\ RestUnchangedExcept("config")

\* load_cookies, lines 59-72.
LoadCookies ==
    /\ cfgpc = "ready"
    /\ loaded' =
          IF cookieFile.kind = "absent"
             THEN [kind |-> "None"]
             ELSE IF cookieFile.kind = "garbage"
                     THEN [kind |-> "None"]
                     ELSE [kind |-> "str", value |-> JsonLoads(cookieFile.cookies)]
    /\ UNCHANGED <<cfgpc, cookieFile, lastInput, asSaved, saves>>
    /\ UNCHANGED <<poolVars, runnerVars, batchVars>>
    /\ RestUnchangedExcept("config")

\* Outside the program the file is removed, or overwritten with text that is
\* not JSON.
FileReplaced ==
    /\ cfgpc = "ready"
    /\ cookieFile.kind = "json"
    /\ cookieFile' \in {[kind |-> "absent"], [kind |-> "garbage"]}
    /\ asSaved' = FALSE
    /\ loaded' = [kind |-> "not called"]
    /\ UNCHANGED <<cfgpc, lastInput, saves>>
    /\ UNCHANGED <<poolVars, runnerVars, batchVars>>
    /\ RestUnchangedExcept("config")

ConfigNext ==
    \/ SaveCookies
    \/ LoadCookies
    \/ FileReplaced

\* ------------------------------------------- TwitterPlaywrightSource.fetch

FetchOff ==
    /\ cookies_str = [t \in Tasks |-> "None"]
    /\ fetchUrl = [t \in Tasks |-> TweetUrl]
    /\ raised = [t \in Tasks |-> "none"]

\* Every coroutine holds a TwitterPlaywrightSource(cookies) or
\* TwitterPlaywrightSource() (lines 31-37) and has a url to call fetch with.
FetchInit ==
    /\ cookies_str \in [Tasks -> {"None", "", "auth_token=a; ct0=b"}]
    /\ fetchUrl \in [Tasks -> Urls]
    /\ raised = [t \in Tasks |-> "none"]

\* fetch entering get_context whatever the source and the url are.
FetchUnchecked(t) == Call(t)

\* fetch, lines 92-108: there is no await before get_context is entered.
Fetch(t) ==
    /\ pc[t] \in {"idle", "exited"}
    /\ IF cookies_str[t] \in {"None", ""}
          THEN /\ raised' = [raised EXCEPT ![t] = "Cookies are required to fetch tweets"]
               /\ UNCHANGED <<cookies_str, fetchUrl>>
               /\ UNCHANGED <<poolVars, runnerVars, batchVars>>
               /\ RestUnchangedExcept("fetch")
          ELSE IF ~TwitterCanHandle(fetchUrl[t])
                  THEN /\ raised' = [raised EXCEPT ![t] = "Invalid Twitter URL"]
                       /\ UNCHANGED <<cookies_str, fetchUrl>>
                       /\ UNCHANGED <<poolVars, runnerVars, batchVars>>
                       /\ RestUnchangedExcept("fetch")
                  ELSE Call(t)

\* The coroutines use the pool through fetch only.
FetchNext ==
    \/ \E t \in Tasks : Fetch(t)
    \/ (PoolNext /\ UNCHANGED calls)

\* ------------------------------------------------------ BrowserPool.close

\* close has not been called.
CloseOff == closing = "none"

\* The idle queue without the disconnected browsers at its head: close takes
\* them out without awaiting anything (lines 259-262).
RECURSIVE DropDisconnected(_)
DropDisconnected(q) ==
    IF q # <<>> /\ ~IsConnected(Head(q)) THEN DropDisconnected(Tail(q)) ELSE q

\* close, lines 259-274, from its call or from the return of an awaited
\* browser.close() to its next await: the loop takes browsers from the queue
\* until it awaits the close() of a connected one; with the queue empty it
\* awaits playwright.stop(), or returns when Playwright was never started.
CloseLoop ==
    /\ closing \in {"none", "draining"}
    /\ LET q == DropDisconnected(browsers)
       IN IF q # <<>>
             THEN /\ browsers' = Tail(q)
                  /\ bstate' = [bstate EXCEPT ![Head(q)] = "closed"]
                  /\ closing' = "draining"
                  /\ UNCHANGED <<initialized, browser_count>>
             ELSE /\ browsers' = <<>>
                  /\ bstate' = bstate
                  /\ IF playwright
                        THEN /\ closing' = "stopping"
                             /\ UNCHANGED <<initialized, browser_count>>
                        ELSE /\ closing' = "returned"
                             /\ initialized' = FALSE
                             /\ browser_count' = 0
    /\ UNCHANGED <<playwright, lock, pc, calls, cookies, held, ctx, relCalls,
                   ctxCloses, leaked, ctxCookies, browserCookies>>
    /\ UNCHANGED <<runnerVars, batchVars>>
    /\ RestUnchangedExcept("close")

\* close, lines 266-274: `await self._playwright.stop()` returns, the fields
\* are reset and close returns. A stopped Playwright has ended every browser
\* it launched.
CloseStopped ==
    /\ closing = "stopping"
    /\ bstate' = [b \in BrowserIds |->
                     IF bstate[b] = "connected" THEN "disconnected" ELSE bstate[b]]
    /\ playwright' = FALSE
    /\ initialized' = FALSE
    /\ browser_count' = 0
    /\ closing' = "returned"
    /\ UNCHANGED <<browsers, lock, pc, calls, cookies, held, ctx, relCalls,
                   ctxCloses, leaked, ctxCookies, browserCookies>>
    /\ UNCHANGED <<runnerVars, batchVars>>
    /\ RestUnchangedExcept("close")

\* The pool's users run until close has returned, close among them.
CloseNext ==
    \/ CloseLoop
    \/ CloseStopped
    \/ (closing # "returned" /\ PoolNext)

\* ------------------------------------------------ POST /api/bookmarks/fetch

\* The cookies field of a request: not sent, white space only, a string that
\* lacks a required cookie, one whose required cookie is too short, and a
\* well-formed one.
RawCookies == {"absent", "blank", "missing field", "short field", "well-formed"}

\* Answers of the verification endpoint: a status code, or httpx.get raising.
Preflights ==
    {[raises |-> "nothing", status_code |-> c] : c \in {200, 401, 403, 429, 500}}
        \cup {[raises |-> e, status_code |-> 0] : e \in {"timeout", "connect error"}}

\* BookmarkScraper.scrape, awaited: it returns a list of n bookmarks, raises, or
\* takes longer than 1200 seconds.
ScrapeOutcomes ==
    {[outcome |-> "returns", n |-> k] : k \in 0..MaxIds}
        \cup {[outcome |-> o, n |-> 0] : o \in {"raises", "exceeds limit"}}

BookmarksOff ==
    /\ bfpc = "off"
    /\ bfJson = FALSE
    /\ bfRaw = "absent"
    /\ bfPreflight = [raises |-> "nothing", status_code |-> 200]
    /\ bfResponse = [status |-> 0]
    /\ bfThread = FALSE
    /\ bfEvents = <<>>
    /\ bfScrape = [outcome |-> "returns", n |-> 0]

BookmarksInit ==
    /\ bfpc = "received"
    /\ bfJson \in BOOLEAN
    /\ bfRaw \in RawCookies
    /\ bfPreflight \in Preflights
    /\ bfResponse = [status |-> 0]
    /\ bfThread = FALSE
    /\ bfEvents = <<>>
    /\ bfScrape \in ScrapeOutcomes

\* _get_cookies_from_request: None for a missing or blank field, else the
\* normalised string.
GetCookiesFromRequest(raw) == IF raw \in {"absent", "blank"} THEN "None" ELSE raw

\* validate_cookies: "not configured", "invalid" (a required field missing or
\* short) or "valid".
ValidateCookies(c) ==
    IF c = "None"
       THEN [valid |-> FALSE, status |-> "not_configured"]
       ELSE IF c \in {"missing field", "short field"}
               THEN [valid |-> FALSE, status |-> "invalid"]
               ELSE [valid |-> TRUE, status |-> "valid"]

\* The preflight never refuses.
PreflightAlwaysPasses(answer) == FALSE

\* bookmarks_fetch, line 409: resp.status_code != 200; an exception of
\* httpx.get is caught at line 417 and the handler goes on.
PreflightRefuses(answer) == answer.raises = "nothing" /\ answer.status_code # 200

\* bookmarks_fetch, lines 371-420 and 473: the checks, then the streaming
\* Response is returned with its generator not yet run.
BookmarksFetch ==
    /\ bfpc = "received"
    /\ LET c == GetCookiesFromRequest(bfRaw)
       IN IF c = "None"
             THEN /\ bfResponse' = [status |-> 400,
                                    error |-> "Twitter cookies required",
                                    setup_url |-> "/setup"]
                  /\ bfpc' = "done"
             ELSE IF ~ValidateCookies(c).valid
                     THEN /\ bfResponse' = [status |-> 400, error |-> ValidateCookies(c).status]
                          /\ bfpc' = "done"
                     ELSE IF PreflightRefuses(bfPreflight)
                             THEN /\ bfResponse' = [status |-> 401,
                                                    error |-> "cookies expired or invalid",
                                                    setup_url |-> "/setup"]
                                  /\ bfpc' = "done"
                             ELSE /\ bfResponse' = [status |-> 200,
                                                    mimetype |-> "text/event-stream"]
                                  /\ bfpc' = "streaming"
    /\ UNCHANGED <<bfJson, bfRaw, bfPreflight, bfThread, bfEvents, bfScrape>>
    /\ UNCHANGED <<poolVars, runnerVars, batchVars>>
    /\ RestUnchangedExcept("bookmarks")

\* generate, lines 445-449: the start event, then the scrape thread is started.
StreamStart ==
    /\ bfpc = "streaming"
    /\ bfEvents' = <<[type |-> "start"]>>
    /\ bfThread' = TRUE
    /\ bfpc' = "scraping"
    /\ UNCHANGED <<bfJson, bfRaw, bfPreflight, bfResponse, bfScrape>>
    /\ UNCHANGED <<poolVars, runnerVars, batchVars>>
    /\ RestUnchangedExcept("bookmarks")

\* _run_scrape, line 434: run_async(coro), app.py line 69, takes no `timeout`,
\* so the call raises TypeError before the coroutine is submitted; lines
\* 439-441 and 466-469 turn it into the stream's error event.
RunScrapeRaises ==
    /\ bfpc = "scraping"
    /\ bfEvents' = Append(bfEvents,
           [type |-> "error",
            error |-> "run_async() got an unexpected keyword argument 'timeout'"])
    /\ bfpc' = "done"
    /\ UNCHANGED <<bfJson, bfRaw, bfPreflight, bfResponse, bfThread, bfScrape>>
    /\ UNCHANGED <<poolVars, runnerVars, batchVars>>
    /\ RestUnchangedExcept("bookmarks")

BookmarksNext ==
    \/ BookmarksFetch
    \/ StreamStart
    \/ RunScrapeRaises

\* ------------------------------------------------ POST /api/cookies/validate

\* Values of the `live` query argument; "absent" when the request has none.
LiveArgs == {"absent", "true", "True", "TRUE", "false", "1", "yes"}

\* Answers to the live check: those of the verification endpoint, and a 200
\* whose body resp.json() cannot decode.
LiveAnswers ==
    Preflights \cup {[raises |-> "json decode error", status_code |-> 200]}

ValidateOff ==
    /\ vpc = "off"
    /\ vRaw = "absent"
    /\ vLiveArg = "absent"
    /\ vAnswer = [raises |-> "nothing", status_code |-> 200]
    /\ vResult = [valid |-> FALSE]
    /\ vNetCalls = 0

ValidateInit ==
    /\ vpc = "received"
    /\ vRaw \in RawCookies
    /\ vLiveArg \in LiveArgs
    /\ vAnswer \in LiveAnswers
    /\ vResult = [valid |-> FALSE]
    /\ vNetCalls = 0

\* str.lower on the values of the `live` argument.
Lower(a) == IF a \in {"True", "TRUE"} THEN "true" ELSE a

\* The live check is made whatever the request says.
LiveAlways(arg) == TRUE

\* validate_cookies_endpoint, line 185:
\* request.args.get("live", "false").lower() == "true".
LiveRequested(arg) == Lower(IF arg = "absent" THEN "false" ELSE arg) = "true"

\* validate_cookies_endpoint, line 179: the dict validate_cookies returns; its
\* message is kept as the list of the parts it is made of, and `live` and
\* `screen_name` are "unset" while the dict has no such key.
FormatResult(c) ==
    [valid |-> ValidateCookies(c).valid, status |-> ValidateCookies(c).status,
     message |-> <<"format">>, live |-> "unset", screen_name |-> "unset"]

\* validate_cookies_endpoint, lines 189-227: the try block on the answer.
LiveCheck(result, answer) ==
    IF answer.raises # "nothing"
       THEN [result EXCEPT !.live = "None",
                           !.message = Append(@, "could not verify live")]
       ELSE IF answer.status_code = 200
               THEN [result EXCEPT !.live = "True", !.screen_name = "set",
                                   !.message = <<"authenticated as">>]
               ELSE [result EXCEPT !.valid = FALSE, !.live = "False",
                                   !.status = "expired",
                                   !.message = <<"expired">>]

\* validate_cookies_endpoint, lines 178-230.
ValidateCookiesEndpoint ==
    /\ vpc = "received"
    /\ LET c == GetCookiesFromRequest(vRaw)
           result == FormatResult(c)
       IN IF ~result.valid
             THEN vResult' = result /\ vNetCalls' = vNetCalls
             ELSE IF LiveRequested(vLiveArg) /\ c # "None"
                     THEN /\ vNetCalls' = vNetCalls + 1
                          /\ vResult' = LiveCheck(result, vAnswer)
                     ELSE vResult' = result /\ vNetCalls' = vNetCalls
    /\ vpc' = "done"
    /\ UNCHANGED <<vRaw, vLiveArg, vAnswer>>
    /\ UNCHANGED <<poolVars, runnerVars, batchVars>>
    /\ RestUnchangedExcept("validate")

ValidateNext == ValidateCookiesEndpoint

\* -------------------------------- AsyncRunner.run on coroutines of the pool

\* No request thread is waiting for a coroutine.
WaiterOff == waiter = [t \in Tasks |-> "none"]

\* run, line 61: a request thread submits coroutine t, which enters
\* `async with pool.get_context(cookies)` on the loop, and then waits on its
\* future (line 62).
RunSubmit(t) ==
    /\ waiter[t] # "waiting"
    /\ pc[t] \in {"idle", "exited"}
    /\ calls < MaxCalls
    /\ calls' = calls + 1
    /\ \E c \in BOOLEAN : cookies' = [cookies EXCEPT ![t] = c]
    /\ held' = [held EXCEPT ![t] = NoBrowser]
    /\ ctx' = [ctx EXCEPT ![t] = "none"]
    /\ relCalls' = [relCalls EXCEPT ![t] = 0]
    /\ ctxCloses' = [ctxCloses EXCEPT ![t] = 0]
    /\ Goto(t, IF initialized THEN "get_nowait" ELSE "init_lock")
    /\ waiter' = [waiter EXCEPT ![t] = "waiting"]
    /\ ctxCookies' = [ctxCookies EXCEPT ![t] = {}]
    /\ UNCHANGED <<initialized, playwright, browser_count, browsers, lock, bstate>>
    /\ UNCHANGED <<leaked, browserCookies, runnerVars, batchVars>>
    /\ RestUnchangedExcept("waiter")

\* run, line 62: the coroutine is done and future.result hands back its outcome.
RunResult(t) ==
    /\ waiter[t] = "waiting"
    /\ pc[t] = "exited"
    /\ waiter' = [waiter EXCEPT ![t] = "returned"]
    /\ UNCHANGED <<poolVars, runnerVars, batchVars>>
    /\ RestUnchangedExcept("waiter")

\* A timeout that cancels the coroutine and puts its browser back.
RunTimeoutCancels(t) ==
    /\ waiter[t] = "waiting"
    /\ pc[t] # "exited"
    /\ waiter' = [waiter EXCEPT ![t] = "timeout"]
    /\ Goto(t, "exited")
    /\ browsers' = IF held[t] # NoBrowser /\ pc[t] # "browser_close"
                      THEN Append(browsers, held[t])
                      ELSE browsers
    /\ UNCHANGED <<initialized, playwright, browser_count, lock, bstate,
                   calls, cookies, held, ctx, relCalls, ctxCloses, leaked,
                   ctxCookies, browserCookies>>
    /\ UNCHANGED <<runnerVars, batchVars>>
    /\ RestUnchangedExcept("waiter")

\* run, line 62: future.result(timeout=120) raises TimeoutError while the
\* coroutine is not done; nothing cancels the future or the coroutine.
RunTimeout(t) ==
    /\ waiter[t] = "waiting"
    /\ pc[t] # "exited"
    /\ waiter' = [waiter EXCEPT ![t] = "timeout"]
    /\ UNCHANGED <<poolVars, runnerVars, batchVars>>
    /\ RestUnchangedExcept("waiter")

\* The coroutines go on by the steps of the pool; a coroutine starts only by
\* being submitted.
WaiterNext ==
    \/ \E t \in Tasks : RunSubmit(t)
    \/ \E t \in Tasks : RunResult(t)
    \/ \E t \in Tasks : RunTimeout(t)
    \/ (PoolNext /\ UNCHANGED calls)

\* --------------------------------------------------------- specifications

\* Coroutines using the browser pool; no request thread is inside run.
RestOff == ScrapeOff /\ SourceOff /\ PdfOff /\ DownloadOff /\ ConfigOff /\ FetchOff /\ CloseOff
           /\ BookmarksOff /\ ValidateOff /\ WaiterOff

\* The subsystems other than g are not in use.
RestOffExcept(g) ==
    /\ (g = "scrape" \/ ScrapeOff)
    /\ (g = "source" \/ SourceOff)
    /\ (g = "pdf" \/ PdfOff)
    /\ (g = "download" \/ DownloadOff)
    /\ (g = "config" \/ ConfigOff)
    /\ (g = "fetch" \/ FetchOff)
    /\ (g = "close" \/ CloseOff)
    /\ (g = "bookmarks" \/ BookmarksOff)
    /\ (g = "validate" \/ ValidateOff)
    /\ (g = "waiter" \/ WaiterOff)

InitPool == PoolInit /\ RunnerInit /\ BatchOff /\ RestOff
SpecPool == InitPool /\ [][PoolNext]_vars

\* Request threads calling AsyncRunner.run; the pool is untouched.
InitRunner == RunnerInit /\ PoolInit /\ BatchOff /\ RestOff
SpecRunner == InitRunner /\ [][RunnerNext]_vars

\* One request at a conversion route, its fetches run through run_async.
InitBatch == BatchInit /\ PoolInit /\ RunnerInit /\ RestOff
SpecBatch == InitBatch /\ [][BatchNext]_vars

\* One scrape, from the entry of its scroll loop; the event loop goes on running
\* the coroutine as long as it has a step to take.
InitScrape == ScrapeInit /\ PoolInit /\ RunnerInit /\ BatchOff /\ RestOffExcept("scrape")
SpecScrape == InitScrape /\ [][ScrapeNext]_vars /\ WF_vars(ScrapeNext)

\* One generate_combined_pdf call.
InitPdf == PdfInit /\ PoolInit /\ RunnerInit /\ BatchOff /\ RestOffExcept("pdf")
SpecPdf == InitPdf /\ [][PdfNext]_vars

\* One GET /download/<filename> request.
InitDownload == DownloadInit /\ PoolInit /\ RunnerInit /\ BatchOff /\ RestOffExcept("download")
SpecDownload == InitDownload /\ [][DownloadNext]_vars

\* A Config and its cookie file.
InitConfig == ConfigInit /\ PoolInit /\ RunnerInit /\ BatchOff /\ RestOffExcept("config")
SpecConfig == InitConfig /\ [][ConfigNext]_vars

\* Coroutines that fetch tweets through the pool.
InitFetch == FetchInit /\ PoolInit /\ RunnerInit /\ BatchOff /\ RestOffExcept("fetch")
SpecFetch == InitFetch /\ [][FetchNext]_vars

\* The pool, its users and one close() call.
InitClose == CloseOff /\ PoolInit /\ RunnerInit /\ BatchOff /\ RestOffExcept("close")
SpecClose == InitClose /\ [][CloseNext]_vars

\* One POST /api/bookmarks/fetch request.
InitBookmarks == BookmarksInit /\ PoolInit /\ RunnerInit /\ BatchOff /\ RestOffExcept("bookmarks")
SpecBookmarks == InitBookmarks /\ [][BookmarksNext]_vars

\* One request to any of the routes that answer with an event stream.
InitStreams == InitBatch \/ InitBookmarks
StreamsNext ==
    \/ BatchNext
    \/ BookmarksNext
SpecStreams == InitStreams /\ [][StreamsNext]_vars

\* One POST /api/cookies/validate request.
InitValidate == ValidateInit /\ PoolInit /\ RunnerInit /\ BatchOff /\ RestOffExcept("validate")
SpecValidate == InitValidate /\ [][ValidateNext]_vars

\* Request threads that run coroutines using the pool through AsyncRunner.run.
InitWaiter == WaiterOff /\ PoolInit /\ RunnerInit /\ BatchOff /\ RestOffExcept("waiter")
SpecWaiter == InitWaiter /\ [][WaiterNext]_vars

\* One get_source_for_url call.
InitSource == SourceInit /\ PoolInit /\ RunnerInit /\ BatchOff /\ RestOffExcept("source")
SpecSource == InitSource /\ [][SourceNext]_vars

\* --------------------------------------------------- BrowserPool: claims

\* Browsers launched and neither closed nor disconnected: the idle ones in the
\* queue plus the checked-out ones.
LiveBrowsers == {b \in BrowserIds : bstate[b] = "connected"}

\* C1: for a pool built with max_browsers = N, the browsers that were launched
\* and are neither closed nor disconnected never number more than N.
C1_LiveBrowsersBounded == Cardinality(LiveBrowsers) <= max_browsers

\* A coroutine that holds a browser or is on its way to one, so that a release
\* by it is still to come.
InGetContext(u) == pc[u] \notin {"idle", "exited", "wait_get"}

\* C2: if every caller that held a browser has released it, a pending acquire
\* returns: while an acquire waits, either the idle queue has a browser for it
\* or another coroutine is still inside get_context and will release.
C2_PendingAcquireReturns ==
    \A t \in Tasks :
        (pc[t] = "wait_get" /\ leaked = {}) =>
            \/ browsers # <<>>
            \/ \E u \in Tasks \ {t} : InGetContext(u)

\* C3: on every exit path of get_context the acquired browser has been released
\* exactly once, and the context, when created, was closed exactly once.
C3_ReleasedExactlyOnce ==
    \A t \in Tasks :
        (pc[t] = "exited" /\ held[t] # NoBrowser) =>
            /\ relCalls[t] = 1
            /\ (ctx[t] # "none" => ctxCloses[t] = 1)

InQueue(b, q) == \E i \in 1..Len(q) : q[i] = b

\* C10: release(b) has exactly one of three outcomes: b disconnected: not
\* enqueued, _browser_count - 1; b connected and the queue not full: appended,
\* count unchanged; b connected and the queue full: closed, not enqueued,
\* count - 1 (after the close). No step enqueues a disconnected browser.
C10_ReleaseOutcomes ==
    [][\A t \in Tasks :
        /\ relCalls'[t] = relCalls[t] + 1 =>
              \/ /\ ~IsConnected(held[t])
                 /\ browsers' = browsers
                 /\ browser_count' = browser_count - 1
                 /\ pc'[t] = "exited"
              \/ /\ IsConnected(held[t])
                 /\ Len(browsers) < max_browsers
                 /\ browsers' = Append(browsers, held[t])
                 /\ browser_count' = browser_count
                 /\ pc'[t] = "exited"
              \/ /\ IsConnected(held[t])
                 /\ Len(browsers) >= max_browsers
                 /\ browsers' = browsers
                 /\ browser_count' = browser_count
                 /\ pc'[t] = "browser_close"
        /\ (pc[t] = "browser_close" /\ pc'[t] # "browser_close") =>
              /\ bstate'[held[t]] = "closed"
              /\ ~InQueue(held[t], browsers')
              /\ browser_count' = browser_count - 1
        /\ \A b \in BrowserIds :
              (~InQueue(b, browsers) /\ InQueue(b, browsers')) => IsConnected(b)
      ]_vars

\* All three outcomes have happened: a browser closed by release because the
\* queue was full, next to one that release put into the queue.
C10_Witness ==
    \E t \in Tasks :
        /\ pc[t] = "exited"
        /\ relCalls[t] = 1
        /\ held[t] # NoBrowser
        /\ bstate[held[t]] = "closed"
        /\ browsers # <<>>

\* --------------------------------------------------- AsyncRunner: claims

LoopsCreated == {l \in LoopIds : loopState[l] # "none"}
ThreadsCreated == {l \in LoopIds : bgState[l] # "none"}

C8_OwnResultNeverLost ==
    \A th \in Threads :
        tpc[th] = "returned" =>
            /\ got[th].kind \in {"value", "exception"}
            /\ got[th].of = future[th]
            /\ got[th].kind = coResult[future[th]]

\* C8, amended: when a call's wait ends, the call gets the value or exception of
\* the coroutine it submitted itself if that coroutine is done, and TimeoutError
\* otherwise; a result a call holds is never that of another call's coroutine.
C8_OwnResultOrTimeout ==
    [][\A th \in Threads :
        /\ (tpc[th] = "wait" /\ tpc'[th] = "returned") =>
              IF coState[future[th]] = "done"
                 THEN got'[th] = [kind |-> coResult[future[th]], of |-> future[th]]
                 ELSE got'[th] = [kind |-> "timeout", of |-> NoCoro]
        /\ got'[th].of # NoCoro =>
              /\ got'[th].of = future'[th]
              /\ \A other \in Threads \ {th} : future'[other] # got'[th].of
      ]_vars

\* Two calls made concurrently have returned, one with its coroutine's value and
\* one with its coroutine's exception.
C8_Witness ==
    \E th1, th2 \in Threads :
        /\ th1 # th2
        /\ tpc[th1] = "returned" /\ got[th1].kind = "value"
        /\ tpc[th2] = "returned" /\ got[th2].kind = "exception"

InProgress == {c \in Coros : coState[c] = "started"}

\* C9 as stated: at most one submitted coroutine is in progress (started and not
\* yet finished) at any moment.
C9_OneCoroutineInProgress == Cardinality(InProgress) <= 1

\* C9, amended: at any moment at most one coroutine is executing a step, and a
\* coroutine's step begins only when no other coroutine is executing; coroutines
\* suspended at an await may be in progress next to it.
C9_OneStepAtATime ==
    [][/\ Cardinality({l \in LoopIds : executing'[l] # NoCoro}) <= 1
       /\ \A l \in LoopIds :
             (executing'[l] # NoCoro /\ executing'[l] # executing[l]) =>
                 \A k \in LoopIds : executing[k] = NoCoro
      ]_vars

\* Two coroutines are in progress, one executing and one suspended at an await.
C9_Witness ==
    \E c1, c2 \in Coros :
        /\ c1 # c2
        /\ coState[c1] = "started" /\ coState[c2] = "started"
        /\ coLoop[c1] = coLoop[c2]
        /\ executing[coLoop[c1]] = c1

\* ---------------------------------------------- batch conversion: claims

\* The request passed validation: sources_for_urls was built and the loop entered.
Accepted == sources # <<>>

HasSource(p) == sources[p] # "None"

\* The position has its entry in articles or in errors.
Recorded(p) ==
    \/ \E k \in 1..Len(articles) : articles[k].pos = p
    \/ \E k \in 1..Len(errors) : errors[k].pos = p

\* Every position of the batch is fetched once if it has a source, never otherwise.
FetchedOnce ==
    /\ \A p \in Positions : fetchStarts[p] <= 1
    /\ (hpc = "done" /\ Accepted) =>
          \A p \in 1..Len(sources) : fetchStarts[p] = (IF HasSource(p) THEN 1 ELSE 0)

\* C4 as stated: every URL with a source is fetched exactly once, in submission
\* order, a fetch starting only after the previous one ended; a fetch that raised
\* does not prevent the later ones, and nothing is retried.
C4_FetchAfterPreviousEnded ==
    /\ FetchedOnce
    /\ \A p, q \in Positions :
          (p < q /\ fetchState[q] # "none" /\ fetchStarts[p] > 0) =>
              fetchState[p] \in {"ok", "raised"}

\* C4, amended: every submitted entry with a source is fetched exactly once, in
\* submission order, a fetch starting only after the handler's wait for the
\* previous one ended, by its result, its exception or the timeout of run_async,
\* and was recorded; a failure does not prevent the later fetches, and nothing
\* is retried.
C4_FetchAfterPreviousRecorded ==
    /\ FetchedOnce
    /\ \A p, q \in Positions :
          (p < q /\ fetchState[q] # "none") => (p < idx /\ Recorded(p))
    /\ \A p \in Positions :
          (fetchState[p] = "raised" /\ p < idx) =>
              \E k \in 1..Len(errors) : errors[k].pos = p /\ errors[k].url = links[p]

\* The first URL's fetch raised and the second URL was fetched all the same.
C4_Witness ==
    /\ hpc = "done"
    /\ Len(sources) = 2
    /\ fetchState[1] = "raised"
    /\ fetchStarts[2] = 1
    /\ fetchState[2] = "ok"
    /\ Len(articles) = 1
    /\ Len(errors) = 1

\* The successful /api/convert response, or the `complete` event of a stream.
Completed ==
    /\ hpc = "done"
    /\ IF Streaming
          THEN events # <<>> /\ events[Len(events)].type = "complete"
          ELSE response.status = 200

Final == IF Streaming THEN events[Len(events)] ELSE response

UrlsOf(list) == {list[k].url : k \in 1..Len(list)}

SummaryCounts ==
    /\ Final.summary.succeeded = Len(Final.articles)
    /\ Final.summary.failed = Len(Final.errors)
    /\ Final.summary.total = Final.summary.succeeded + Final.summary.failed
    /\ Final.summary.total = Len(links)

\* C5 as stated: in the successful response every submitted URL appears in
\* exactly one of `articles` and `errors`, and the summary counts them.
C5_EveryUrlInExactlyOne ==
    Completed =>
        /\ \A p \in 1..Len(links) :
              (links[p] \in UrlsOf(Final.articles)) # (links[p] \in UrlsOf(Final.errors))
        /\ \A k \in 1..Len(Final.articles) : Final.articles[k].status = "success"
        /\ SummaryCounts

\* C5, amended: in the successful response every submitted entry (a position of
\* the list; a URL submitted twice is two entries) has exactly one item, in
\* `articles` (status success) or in `errors`, carrying its URL, and the summary
\* counts them.
C5_EveryEntryInExactlyOne ==
    Completed =>
        /\ \A p \in 1..Len(links) :
              Cardinality({k \in 1..Len(articles) : articles[k].pos = p})
                + Cardinality({k \in 1..Len(errors) : errors[k].pos = p}) = 1
        /\ \A k \in 1..Len(articles) :
              Final.articles[k] = [url |-> links[articles[k].pos], status |-> "success"]
        /\ \A k \in 1..Len(errors) : Final.errors[k].url = links[errors[k].pos]
        /\ Len(Final.articles) = Len(articles)
        /\ Len(Final.errors) = Len(errors)
        /\ SummaryCounts

\* A batch of two completed with one success and one failure.
C5_Witness ==
    /\ Completed
    /\ Len(links) = 2
    /\ Len(Final.articles) = 1
    /\ Len(Final.errors) = 1

\* C6: when every URL of an accepted batch fails, generate_combined_pdf is never
\* called; /api/convert answers 500 with every failed URL and its message, and
\* the streams end with the `error` event 'All conversions failed' listing every
\* failed URL, with no `generating_pdf` event.
C6_AllFailedNoPdf ==
    (hpc = "done" /\ Accepted /\ articles = <<>>) =>
        /\ pdfCalls = <<>>
        /\ \A p \in 1..Len(links) :
              \E k \in 1..Len(errors) : errors[k].pos = p
        /\ IF Streaming
              THEN /\ events[Len(events)].type = "error"
                   /\ events[Len(events)].error = "All conversions failed"
                   /\ events[Len(events)].details = ErrorDetails
                   /\ \A k \in 1..Len(events) : events[k].type # "generating_pdf"
              ELSE /\ response.status = 500
                   /\ response.error = "All conversions failed"
                   /\ response.details = ErrorDetails
        /\ \A k \in 1..Len(errors) : ErrorDetails[k].url = links[errors[k].pos]

\* A batch of two whose fetches both failed has been answered.
C6_Witness ==
    /\ hpc = "done"
    /\ Accepted
    /\ Len(links) = 2
    /\ articles = <<>>
    /\ Len(errors) = 2
    /\ \E p \in Positions : fetchState[p] = "raised"

\* Nothing of the batch was fetched, no PDF was generated, no stream was opened.
NothingDone ==
    /\ \A p \in Positions : fetchStarts[p] = 0 /\ fetchState[p] = "none"
    /\ pdfCalls = <<>>
    /\ events = <<>>
    /\ articles = <<>>

ValidatingRoute == endpoint \in {"convert", "convert_stream"}

\* C11: a /api/convert or /api/convert/stream request with a URL that has no
\* content source is rejected with 400 naming the unsupported URLs, and a request
\* with no links with 400; in both cases no URL is fetched and no PDF generated.
C11_UnsupportedRejectsBatch ==
    (ValidatingRoute /\ (links = <<>> \/ SelectSeq(links, IsUnsupported) # <<>>)) =>
        /\ NothingDone
        /\ hpc \in {"received", "done"}
        /\ hpc = "done" =>
              /\ response.status = 400
              /\ IF links = <<>>
                    THEN response.error = "No links provided"
                    ELSE /\ response.error = "Unsupported URLs"
                         /\ response.urls = SelectSeq(links, IsUnsupported)

\* A batch of a supported and an unsupported URL has been answered.
C11_Witness ==
    /\ ValidatingRoute
    /\ hpc = "done"
    /\ Len(links) = 2
    /\ \E p \in 1..2 : ~IsUnsupported(links[p])
    /\ \E p \in 1..2 : IsUnsupported(links[p])
    /\ response.status = 400

\* The request has a Twitter/X status URL and carries no cookies.
TwitterWithoutCookies ==
    ValidatingRoute /\ SelectSeq(links, IsTwitter) # <<>> /\ ~reqCookies

\* C12 as stated: a batch with a Twitter/X status URL and no cookies is rejected
\* with 400 carrying setup_url; nothing is fetched and no PDF is generated.
C12_NoCookiesSetupUrl ==
    TwitterWithoutCookies =>
        /\ NothingDone
        /\ hpc = "done" =>
              /\ response.status = 400
              /\ "setup_url" \in DOMAIN response

\* C12, amended: such a batch is rejected with 400 and nothing is fetched; the
\* answer carries setup_url when every URL of the batch has a content source,
\* and is the "Unsupported URLs" answer, without setup_url, otherwise.
C12_NoCookiesRejected ==
    TwitterWithoutCookies =>
        /\ NothingDone
        /\ hpc \in {"received", "done"}
        /\ hpc = "done" =>
              /\ response.status = 400
              /\ IF SelectSeq(links, IsUnsupported) = <<>>
                    THEN /\ response.error = "Twitter cookies required"
                         /\ response.urls = SelectSeq(links, IsTwitter)
                         /\ response.setup_url = "/setup"
                    ELSE /\ response.error = "Unsupported URLs"
                         /\ "setup_url" \notin DOMAIN response

\* A batch of a tweet and a web page, sent without cookies, has been answered.
C12_Witness ==
    /\ TwitterWithoutCookies
    /\ hpc = "done"
    /\ Len(links) = 2
    /\ \E p \in 1..2 : GetSourceForUrl(links[p]) = "WebArticleSource"
    /\ response.status = 400
    /\ "setup_url" \in DOMAIN response

\* ---------------------------------------------------- scroll loop: claims

\* The passes at the end of the run that found nothing new.
RECURSIVE TrailingEmpty(_)
TrailingEmpty(ps) ==
    IF ps = <<>> \/ ps[Len(ps)] > 0
       THEN 0
       ELSE 1 + TrailingEmpty(SubSeq(ps, 1, Len(ps) - 1))

\* C13: the loop stops exactly when MAX_EMPTY_SCROLLS consecutive passes found
\* nothing new; a pass that finds something resets the run to 0, so the count
\* stays within 0..MAX_EMPTY_SCROLLS; with finitely many tweet ids on the page
\* the loop ends and scrape returns.
C13_ScrollLoopStops ==
    /\ [](/\ empty_scroll_count \in 0..MAX_EMPTY_SCROLLS
          /\ empty_scroll_count = TrailingEmpty(passes)
          /\ (spc = "returned") => (TrailingEmpty(passes) = MAX_EMPTY_SCROLLS)
          /\ (spc = "loop" /\ Len(passes) > 0 /\ passes[Len(passes)] > 0) =>
                 empty_scroll_count = 0
          /\ Len(bookmarks) = Cardinality(seen_ids)
          /\ Len(passes) <= MAX_EMPTY_SCROLLS * (MaxIds + 1))
    /\ <>(spc = "returned")

\* scrape has returned both bookmarks of the page, found in different passes with
\* an empty pass before the second.
C13_Witness ==
    /\ spc = "returned"
    /\ Len(bookmarks) = MaxIds
    /\ \E i, j \in 1..Len(passes) : i < j /\ passes[i] = 0 /\ passes[j] > 0

\* --------------------------------------------- get_source_for_url: claims

\* C14: get_source_for_url returns an instance of the first class in registration
\* order (TwitterPlaywrightSource, then WebArticleSource) that can handle the URL,
\* and None when none can; a URL the Twitter source accepts is never handed to
\* the web source, and `cookies` is passed only to a constructor that takes it.
C14_FirstSourceThatCanHandle ==
    /\ gsResult # "pending" =>
          /\ gsResult = (IF TwitterCanHandle(gsUrl) THEN "TwitterPlaywrightSource"
                         ELSE IF WebCanHandle(gsUrl) THEN "WebArticleSource"
                         ELSE "None")
          /\ gsResult = GetSourceForUrl(gsUrl)
          /\ gsResult # "None" =>
                /\ gsTried[Len(gsTried)].cls = gsResult
                /\ CanHandle(gsResult, gsUrl)
          /\ \A k \in 1..(Len(gsTried) - 1) : ~CanHandle(gsTried[k].cls, gsUrl)
    /\ TwitterCanHandle(gsUrl) =>
          \A k \in 1..Len(gsTried) : gsTried[k].cls # "WebArticleSource"
    /\ \A k \in 1..Len(gsTried) :
          /\ gsTried[k].cls = SOURCES[k]
          /\ "cookies" \in gsTried[k].args <=>
                ("cookies" \in gsKwargs /\ gsTried[k].cls = "TwitterPlaywrightSource")

\* A tweet URL given with cookies got the Twitter source, made with the cookies.
C14_Witness ==
    /\ gsResult = "TwitterPlaywrightSource"
    /\ "cookies" \in gsKwargs
    /\ gsTried = <<[cls |-> "TwitterPlaywrightSource", args |-> {"cookies"}]>>

\* ------------------------------------------ generate_combined_pdf: claims

\* The UTF-8 byte lengths of the contents of all the articles, added up.
ContentBytes ==
    LET bytes(k) == pdfArticles[k].ascii + 3 * pdfArticles[k].wide
        sum[k \in 0..Len(pdfArticles)] == IF k = 0 THEN 0 ELSE sum[k - 1] + bytes(k)
    IN sum[Len(pdfArticles)]

\* C15: generate_combined_pdf raises ContentTooLargeError exactly when the UTF-8
\* byte lengths of the articles' contents add up to more than MAX_CONTENT_SIZE
\* (a total equal to the limit is accepted); on that rejection, and on the
\* ValueError for an empty list, neither the output directory nor a PDF is made.
C15_ContentTooLarge ==
    /\ gpc = "done" =>
          /\ (pdfOutcome = "ContentTooLargeError") <=>
                (pdfArticles # <<>> /\ ContentBytes > MAX_CONTENT_SIZE)
          /\ (pdfOutcome = "ValueError") <=> (pdfArticles = <<>>)
    /\ (pdfArticles = <<>> \/ ContentBytes > MAX_CONTENT_SIZE) =>
          /\ ~dirCreated
          /\ pdfWritten = 0
          /\ gpc \in {"called", "done"}

\* Two articles, each under the limit, were rejected because of their sum.
C15_Witness ==
    /\ gpc = "done"
    /\ pdfOutcome = "ContentTooLargeError"
    /\ Len(pdfArticles) = 2
    /\ \A k \in 1..2 : Utf8Len(pdfArticles[k]) < MAX_CONTENT_SIZE
    /\ \E k \in 1..2 : pdfArticles[k].wide > 1

\* A total equal to the limit was accepted and the PDF written.
C15_AtLimitAccepted ==
    gpc = "done" /\ ContentBytes = MAX_CONTENT_SIZE /\ pdfOutcome = "path"

\* ------------------------------------------------------- download: claims

\* The name is what secure_filename leaves alone: only letters, digits, "_", "."
\* and "-", and neither end a "." or a "_".
IsSanitised(q) ==
    /\ q # <<>>
    /\ \A k \in 1..Len(q) :
          q[k] \in {"a", "e", "p", "d", "f", "t", "x", "P", "D", "F", "_", ".", "-"}
    /\ q[1] \notin {".", "_"}
    /\ q[Len(q)] \notin {".", "_"}

\* C16: /download/<filename> serves a file only when the name ends with .pdf, is
\* its own sanitised form and names an existing file of the output directory;
\* every other request is answered 400 or 404.
C16_DownloadOnlySafePdf ==
    dpc = "done" =>
        LET ok == /\ EndsWithPdf(dlName)
                  /\ IsSanitised(dlName)
                  /\ dlExists
        IN /\ ok <=> dlResponse.status = 200
           /\ ~ok => dlResponse.status \in {400, 404}
           /\ dlResponse.status = 200 =>
                 /\ dlResponse.file = dlName
                 /\ ~HasSeparator(dlResponse.file)
           /\ dlResponse.status = 404 => (HasSeparator(dlName) \/ ~dlExists)
           /\ (~HasSeparator(dlName) /\ ~(EndsWithPdf(dlName) /\ IsSanitised(dlName))) =>
                 dlResponse.status = 400

\* An existing file whose name the sanitiser would change was refused.
C16_Witness ==
    /\ dpc = "done"
    /\ dlExists
    /\ EndsWithPdf(dlName)
    /\ dlName[1] = "."
    /\ dlResponse.status = 400

\* An existing PDF with a clean name was served.
C16_Served ==
    dpc = "done" /\ dlResponse.status = 200 /\ Len(dlName) > 4

\* --------------------------------------------------------- config: claims

\* A standard string: one line of name=value pairs separated by "; ".
IsStandard(q) ==
    /\ q # <<>>
    /\ \A k \in 1..Len(q) : q[k] \notin {"TAB", "SP2", "SP4", "NL"}
    /\ q[1] # "SP"
    /\ q[Len(q)] # "SP"
    /\ \E k \in 1..Len(q) : q[k] = "="

\* C17: load_cookies returns the normalised form of the most recently saved
\* input, the input itself for a standard string, and None when there is no
\* file or the file is not JSON; a normalised string normalises to itself.
C17_LoadReturnsLastSaved ==
    [][LoadCookies =>
          /\ cookieFile.kind \in {"absent", "garbage"} => loaded' = [kind |-> "None"]
          /\ asSaved =>
                /\ loaded'.kind = "str"
                /\ loaded'.value = ParseCookieInput(lastInput)
                /\ IsStandard(lastInput) => loaded'.value = lastInput
                /\ ParseCookieInput(loaded'.value) = loaded'.value]_vars

\* Every input normalises to a fixed point of the normalisation.
C17_NormaliseIdempotent ==
    \A raw \in CookieInputs :
        ParseCookieInput(ParseCookieInput(raw)) = ParseCookieInput(raw)

\* A pasted DevTools table was saved over an earlier save and loaded back as
\* the standard string.
C17_Witness ==
    /\ saves = 2
    /\ asSaved
    /\ lastInput = <<"ct0", "TAB", "v", "TAB", ".x.com", "NL",
                     "auth_token", "SP4", "w", "SP4", ".x.com">>
    /\ loaded = [kind |-> "str",
                 value |-> <<"ct0", "=", "v", ";", "SP", "auth_token", "=", "w">>]

\* ---------------------------------------------------------- fetch: claims

\* C18: fetch raises ValueError when the source has no cookies and when the url
\* is not a status URL, and then no browser has been acquired: the pool is as it
\* was; get_context is entered only with cookies and a status URL.
C18_FetchRaisesBeforeAcquire ==
    [][\A t \in Tasks :
          /\ raised'[t] # raised[t] /\ raised'[t] # "none" =>
                /\ UNCHANGED poolVars
                /\ raised'[t] = "Cookies are required to fetch tweets"
                      <=> cookies_str[t] \in {"None", ""}
                /\ raised'[t] = "Invalid Twitter URL"
                      <=> (cookies_str[t] \notin {"None", ""} /\ ~fetchUrl[t].status)
          /\ (pc[t] \in {"idle", "exited"} /\ pc'[t] \notin {"idle", "exited"}) =>
                /\ cookies_str[t] = "auth_token=a; ct0=b"
                /\ fetchUrl[t] = TweetUrl]_vars

\* A fetch was refused for its url while the other coroutine held the pool's
\* only browser.
C18_Witness ==
    \E t, u \in Tasks :
        /\ raised[t] = "Invalid Twitter URL"
        /\ held[u] # NoBrowser
        /\ browser_count = 1

\* ---------------------------------------------------------- close: claims

\* C19: when close() has returned, every browser of the pool is closed,
\* Playwright is stopped and the pool is in its initial state: not initialized,
\* no Playwright, _browser_count 0 and an empty idle queue, whatever the pool's
\* users were doing when close was called.
C19_ClosedPoolIsInitial ==
    closing = "returned" =>
        /\ \A b \in BrowserIds : bstate[b] # "connected"
        /\ ~playwright
        /\ ~initialized
        /\ browser_count = 0
        /\ browsers = <<>>

\* What close does reset: the three fields it assigns, and no browser is left
\* connected.
C19_FieldsReset ==
    closing = "returned" =>
        /\ \A b \in BrowserIds : bstate[b] # "connected"
        /\ ~playwright
        /\ ~initialized
        /\ browser_count = 0

\* close returned while a coroutine was inside get_context with a browser.
C19_ClosedWhileCheckedOut ==
    /\ closing = "returned"
    /\ \E t \in Tasks : held[t] # NoBrowser /\ pc[t] \notin {"idle", "exited"}

\* ------------------------------------------------ bookmarks/fetch: claims

\* C20: /api/bookmarks/fetch opens the stream and starts the scrape only for
\* non-blank cookies of valid format whose preflight was not answered with a
\* status other than 200; missing or invalid cookies are answered 400 and such
\* a preflight 401, without a stream or a scrape; a network error in the
\* preflight does not stop the request.
C20_ScrapeOnlyAfterChecks ==
    LET present == bfRaw \notin {"absent", "blank"}
        valid == bfRaw = "well-formed"
        refused == bfPreflight.status_code \in {401, 403, 429, 500}
    IN /\ (bfThread \/ bfEvents # <<>> \/ bfResponse.status = 200) =>
             (present /\ valid /\ ~refused)
       /\ bfpc \notin {"off", "received"} =>
             /\ ~present => bfResponse.status = 400
             /\ (present /\ ~valid) => bfResponse.status = 400
             /\ (present /\ valid /\ refused) => bfResponse.status = 401
             /\ (present /\ valid /\ ~refused) => bfResponse.status = 200
       /\ bfResponse.status \in {400, 401} =>
             (bfpc = "done" /\ ~bfThread /\ bfEvents = <<>>)
       /\ (bfpc = "done" /\ bfResponse.status = 200) => bfThread
       /\ (browser_count = 0 /\ browsers = <<>>)

\* The preflight failed with a network error and the scrape thread was started.
C20_Witness ==
    /\ bfPreflight.raises \in {"timeout", "connect error"}
    /\ bfThread
    /\ bfResponse.status = 200

\* A well-formed cookie string was refused by the preflight.
C20_Refused ==
    bfRaw = "well-formed" /\ bfResponse.status = 401

\* C21: when the scrape returns n bookmarks within the 1200-second limit, the
\* stream of /api/bookmarks/fetch ends with a `complete` event with total = n
\* and not with an `error` event; the 'timed out (20 min limit)' error appears
\* only when the limit is exceeded.
C21_ScrapeCompletesWithinLimit ==
    (bfpc = "done" /\ bfResponse.status = 200) =>
        LET last == bfEvents[Len(bfEvents)]
        IN /\ bfScrape.outcome = "returns" =>
                 /\ last.type = "complete"
                 /\ last.total = bfScrape.n
           /\ (last.type = "error"
                 /\ last.error = "Bookmark scrape timed out (20 min limit)") =>
                 bfScrape.outcome = "exceeds limit"

\* What the stream of /api/bookmarks/fetch is in every run: `start`, then the
\* TypeError's message as an `error` event.
C21_StreamIsStartThenTypeError ==
    (bfpc = "done" /\ bfResponse.status = 200) =>
        /\ Len(bfEvents) = 2
        /\ bfEvents[1].type = "start"
        /\ bfEvents[2].type = "error"
        /\ bfEvents[2].error # "Bookmark scrape timed out (20 min limit)"

\* --------------------------------------------------- event streams: claims

EventTypes == {"start", "progress", "bookmark", "complete", "error", "generating_pdf"}

Positions_of(evs, types) == {k \in 1..Len(evs) : evs[k].type \in types}

\* The events sent so far are a prefix of a well-formed stream, and the whole
\* of one when the generator has finished.
WellFormedStream(evs, finished) ==
    evs # <<>> =>
        /\ evs[1].type = "start"
        /\ Positions_of(evs, {"start"}) = {1}
        /\ \A k \in 1..Len(evs) : evs[k].type \in EventTypes
        /\ Cardinality(Positions_of(evs, {"complete", "error"})) <= 1
        /\ Positions_of(evs, {"complete", "error"}) \subseteq {Len(evs)}
        /\ finished => evs[Len(evs)].type \in {"complete", "error"}
        /\ Cardinality(Positions_of(evs, {"generating_pdf"})) <= 1
        /\ \A g \in Positions_of(evs, {"generating_pdf"}) :
              /\ \E k \in 1..(g - 1) : evs[k].type = "progress" /\ evs[k].status = "success"
              /\ \A k \in Positions_of(evs, {"progress"}) : k < g

\* C22: every event stream of /api/convert/stream, /api/bookmarks/convert and
\* /api/bookmarks/fetch begins with `start` and ends with exactly one terminal
\* event, `complete` or `error`, that nothing follows; every type is a known
\* one; `generating_pdf` occurs at most once, only after a success and after
\* all progress events.
C22_StreamsWellFormed ==
    /\ WellFormedStream(events, hpc = "done")
    /\ WellFormedStream(bfEvents, bfpc = "done")
    /\ (hpc = "done" /\ response.status = 200 /\ Streaming) => events # <<>>
    /\ (bfpc = "done" /\ bfResponse.status = 200) => bfEvents # <<>>

\* A stream with a failed and a successful URL ended with `complete` after
\* `generating_pdf`.
C22_Witness ==
    /\ hpc = "done"
    /\ Streaming
    /\ Len(events) = 7
    /\ events[6].type = "generating_pdf"
    /\ events[7].type = "complete"
    /\ \E k \in 1..5 : events[k].type = "progress" /\ events[k].status = "failed"

\* The stream of /api/bookmarks/fetch has ended.
C22_BookmarksStreamEnded ==
    bfpc = "done" /\ Len(bfEvents) = 2

\* The progress events of the conversion stream, in the order sent.
ProgressEvents == SelectSeq(events, LAMBDA e : e.type = "progress")

\* C23: in the stream of a batch of n URLs, `start` carries total = n, and the
\* progress events are, for i = 1..n in this order, one `processing` event
\* with current = i and then one `success` or `failed` event with the same
\* current and url: 2n progress events in all.
C23_TwoProgressEventsPerUrl ==
    events # <<>> =>
        /\ events[1].total = Len(links)
        /\ \A k \in 1..Len(ProgressEvents) :
              LET e == ProgressEvents[k]
                  i == (k + 1) \div 2
              IN /\ e.current = i
                 /\ e.url = links[i]
                 /\ e.total = Len(links)
                 /\ IF k % 2 = 1
                       THEN e.status = "processing"
                       ELSE e.status \in {"success", "failed"}
        /\ Len(ProgressEvents) <= 2 * Len(links)
        /\ hpc = "done" => Len(ProgressEvents) = 2 * Len(links)
        /\ \A k \in 1..Len(ProgressEvents) : events[k + 1] = ProgressEvents[k]

\* A stream of two URLs ended after a success and a failure.
C23_Witness ==
    /\ hpc = "done"
    /\ Len(links) = 2
    /\ Len(ProgressEvents) = 4
    /\ ProgressEvents[2].status = "success"
    /\ ProgressEvents[4].status = "failed"

\* The bookmark events of the /api/bookmarks/fetch stream, in the order sent.
BookmarkEvents == SelectSeq(bfEvents, LAMBDA e : e.type = "bookmark")

C24_NoBookmarkEvent == BookmarkEvents = <<>>

\* ------------------------------------------------ scrape result: claims

\* C25: the list scrape builds and returns never holds two entries with the same
\* tweet id nor an entry without one, also when a tweet is visible in several
\* passes; on_bookmark is called exactly once per entry, in list order, with
\* running_total the entry's 1-based position.
C25_NoDuplicateOneCallbackEach ==
    /\ \A i, j \in 1..Len(bookmarks) : bookmarks[i] = bookmarks[j] => i = j
    /\ \A i \in 1..Len(bookmarks) : bookmarks[i] # NoId
    /\ callbacks = [k \in 1..Len(bookmarks) |->
                       [entry |-> bookmarks[k], running_total |-> k]]

\* scrape has returned every bookmark of the page after a collected tweet was
\* extracted again, and on_bookmark was called for each.
C25_Witness ==
    /\ spc = "returned"
    /\ resighted
    /\ Len(bookmarks) = MaxIds
    /\ Len(callbacks) = MaxIds

\* ------------------------------------------- /api/cookies/validate: claims

\* C26: the live check is attempted only when format validation passed and
\* live=true was requested; a format-invalid result is returned as
\* validate_cookies gave it, with no network call; a failure of the live check
\* leaves the result valid with live = null; a non-200 answer makes it
\* valid = false with status expired.
C26_LiveCheckOnlyWhenValidAndAsked ==
    vpc = "done" =>
        LET fmt == ValidateCookies(GetCookiesFromRequest(vRaw))
        IN /\ vNetCalls \in {0, 1}
           /\ vNetCalls = 1 =>
                 fmt.valid /\ vLiveArg \in {"true", "True", "TRUE"}
           /\ ~fmt.valid =>
                 /\ vNetCalls = 0
                 /\ vResult.valid = FALSE /\ vResult.status = fmt.status
                 /\ vResult.message = <<"format">>
                 /\ vResult.live = "unset" /\ vResult.screen_name = "unset"
           /\ (vNetCalls = 1 /\ vAnswer.raises # "nothing") =>
                 /\ vResult.valid /\ vResult.status = "valid"
                 /\ vResult.live = "None"
           /\ (vNetCalls = 1 /\ vAnswer.raises = "nothing"
                   /\ vAnswer.status_code # 200) =>
                 /\ vResult.valid = FALSE /\ vResult.status = "expired"

\* A live check was made for well-formed cookies and failed on the network.
C26_Witness ==
    /\ vpc = "done"
    /\ vNetCalls = 1
    /\ vAnswer.raises = "timeout"
    /\ vResult.live = "None"

\* Well-formed cookies were turned down by a 401 of the live check.
C26_Expired ==
    /\ vpc = "done"
    /\ vNetCalls = 1
    /\ vAnswer.status_code = 401
    /\ vResult.status = "expired"

\* Cookies with a short field were answered with live=true and no network call.
C26_InvalidReturnedAtOnce ==
    /\ vpc = "done"
    /\ vRaw = "short field"
    /\ vLiveArg = "true"
    /\ vNetCalls = 0
    /\ vResult.status = "invalid"

\* ------------------------------------------------ checked-out browsers: claims

\* acquire has returned a browser to the coroutine and the coroutine has not
\* called release yet.
CheckedOut(t) ==
    pc[t] \in {"new_context", "add_init_script", "add_cookies", "body", "ctx_close"}

\* C27: no browser is held by two callers at the same time: between an acquire
\* that returned b and the matching release(b) no other acquire returns b, so
\* b is held by no other coroutine and is not in the idle queue.
C27_NoBrowserHeldTwice ==
    \A t \in Tasks :
        CheckedOut(t) =>
            /\ held[t] # NoBrowser
            /\ ~InQueue(held[t], browsers)
            /\ \A u \in Tasks \ {t} : CheckedOut(u) => held[u] # held[t]

\* A coroutine is in its with-body with the pool's browser, not yet released,
\* while another coroutine waits in acquire for a browser.
C27_Witness ==
    \E t, u \in Tasks :
        /\ t # u
        /\ pc[u] = "body"
        /\ held[u] # NoBrowser
        /\ relCalls[u] = 0
        /\ pc[t] = "wait_get"

\* Two coroutines are in their with-bodies at once, each with its own browser.
C27_TwoHolders ==
    \E t, u \in Tasks :
        /\ t # u
        /\ pc[t] = "body"
        /\ pc[u] = "body"
        /\ held[t] # held[u]

\* ------------------------------------------------------ _browser_count: claims

\* The browsers handed out by acquire and not put back or uncounted by release:
\* those of coroutines between acquire and the end of release, and those whose
\* release was skipped.
BrowsersOut ==
    {b \in BrowserIds :
        \E t \in Tasks : (CheckedOut(t) \/ pc[t] = "browser_close") /\ held[t] = b}
        \cup leaked

\* C28: for any interleaving of get_context uses and disconnects, _browser_count
\* is never negative, never exceeds max_browsers, and equals the number of
\* browsers launched and not yet closed or discarded: the idle ones in the
\* queue plus the checked-out ones.
C28_CountWithinLimitAndExact ==
    /\ browser_count >= 0
    /\ browser_count <= max_browsers
    /\ browser_count = Len(browsers) + Cardinality(BrowsersOut)

\* _browser_count is never negative and equals the idle browsers plus the ones
\* out of the queue.
C28_CountIsIdlePlusOut ==
    /\ browser_count >= 0
    /\ browser_count = Len(browsers) + Cardinality(BrowsersOut)

\* --------------------------------------------- timeout of run: claims

\* C29: when AsyncRunner.run stops waiting because its timeout elapsed, the
\* caller gets a timeout error and the coroutine is not cancelled: the step
\* changes nothing of the coroutine or the pool; the coroutine keeps running,
\* and a browser it has checked out stays checked out, in no other hands and
\* not in the idle queue, until a step of the coroutine itself ends that.
C29_TimeoutLeavesCoroutineRunning ==
    [][\A t \in Tasks :
        /\ (waiter[t] = "waiting" /\ waiter'[t] = "timeout") =>
              /\ pc[t] # "exited"
              /\ UNCHANGED poolVars
        /\ (waiter[t] = "timeout" /\ waiter'[t] = "timeout" /\ CheckedOut(t)) =>
              /\ ~InQueue(held[t], browsers)
              /\ \A u \in Tasks \ {t} : CheckedOut(u) => held[u] # held[t]
              /\ \/ CheckedOut(t)' /\ held'[t] = held[t]
                 \/ relCalls'[t] = relCalls[t] + 1
                 \/ pc[t] = "ctx_close" /\ pc'[t] = "exited" /\ held[t] \in leaked'
      ]_vars

\* The caller of a coroutine got the timeout error; the coroutine is in its
\* with-body with the pool's browser while another coroutine waits in acquire.
C29_Witness ==
    \E t, u \in Tasks :
        /\ t # u
        /\ waiter[t] = "timeout"
        /\ pc[t] = "body"
        /\ held[t] # NoBrowser
        /\ pc[u] = "wait_get"

\* A coroutine whose caller timed out has run to its end and released its
\* browser into the idle queue.
C29_FinishedAfterTimeout ==
    \E t \in Tasks :
        /\ waiter[t] = "timeout"
        /\ pc[t] = "exited"
        /\ relCalls[t] = 1
        /\ InQueue(held[t], browsers)

\* ------------------------------------------------ contexts and cookies: claims

\* C30: every get_context call makes a context of its own that receives only
\* that caller's cookies, and a browser goes back into the idle queue only
\* after that context was closed; so what a caller finds in its context is
\* decided by its own cookies alone, whatever cookies earlier callers of the
\* same browser supplied.
C30_ContextHoldsOnlyOwnCookies ==
    \A t \in Tasks :
        /\ ctxCookies[t] \subseteq {t}
        /\ pc[t] = "body" =>
              /\ ctx[t] = "open"
              /\ ctxCookies[t] = IF cookies[t] THEN {t} ELSE {}
        /\ (ctx[t] = "open" /\ held[t] # NoBrowser) => ~InQueue(held[t], browsers)

\* A coroutine is in its with-body, having given no cookies, on a reused browser
\* to whose earlier context another caller added cookies.
C30_Witness ==
    \E t, u \in Tasks :
        /\ t # u
        /\ pc[t] = "body"
        /\ ~cookies[t]
        /\ u \in browserCookies[held[t]]
        /\ ctxCookies[t] = {}

\* A coroutine is in its with-body with its own cookies on a browser whose
\* earlier context held another caller's cookies.
C30_OwnCookiesOnReusedBrowser ==
    \E t, u \in Tasks :
        /\ t # u
        /\ pc[t] = "body"
        /\ browserCookies[held[t]] = {t, u}
        /\ ctxCookies[t] = {t}

====
